---- MODULE Spec2Model ----
(***************************************************************************)
(* Code Cognitio: the three-collection vector index (FaissSearchEngine),   *)
(* its persistence, the search wrappers (SearchEngine, SearchService) and  *)
(* the build entry points, as a state machine.                             *)
(***************************************************************************)
EXTENDS Integers, Sequences, FiniteSets, TLC

VARIABLES
    chunks, code_chunks, doc_chunks,      \* FaissSearchEngine chunk lists
    index, code_index, doc_index,         \* FAISS indices: sequences of rows
    index_metadata,                       \* FaissSearchEngine.index_metadata
    disk,                                 \* the data directory
    loaded,                               \* _load_index has assigned state
    torn,                                 \* an add_chunks call raised midway
    faults,                               \* interrupted saves / failed reads still to come
    results,                              \* value returned by the last search
    call,                                 \* the last operation and its inputs
    sig_chunk, sig_filter, sig_ret,       \* _matches_signature_filter i/o
    fs,                                   \* the files below the build's root
    args,                                 \* options and faults of the build
    files,                                \* `files` collected by the last walk
    all_chunks,                           \* value returned by process_files
    section, max_chunk_size,              \* Chunker._chunk_section input
    section_chunks,                       \* and the list it returns
    source_lines,                         \* lines of the file given to _read_functions
    read_functions                        \* the blocks it yields

vars == <<chunks, code_chunks, doc_chunks, index, code_index, doc_index,
          index_metadata, disk, loaded, torn, faults, results, call,
          sig_chunk, sig_filter, sig_ret, fs, args, files, all_chunks,
          section, max_chunk_size, section_chunks, source_lines,
          read_functions>>

engine == <<chunks, code_chunks, doc_chunks, index, code_index, doc_index,
            index_metadata, loaded, torn>>

sigvars == <<sig_chunk, sig_filter, sig_ret>>

ingestvars == <<fs, args, files, all_chunks>>

textvars == <<section, max_chunk_size, section_chunks, source_lines,
             read_functions>>

-----------------------------------------------------------------------------
(* Bounds *)

MaxChunks == 2      \* cap on len(self.chunks)
MaxBatch == 2       \* longest list handed to one add_chunks call
MaxK == 2           \* largest top_k
MaxFaults == 1      \* interrupted saves and failed reads of a faulty run
MaxStr == 2         \* longest string in the signature-filter inputs
MaxParams == 1      \* most parameters of a chunk in the signature inputs
MaxFiles == 2       \* files below the root of a build
MaxFileChunks == 5  \* chunks the largest file of the model yields
MaxText == 6        \* longest section content handed to the chunker
MinChunkSize == 2   \* smallest and largest max_chunk_size
MaxChunkSize == 3
MaxLines == 4       \* lines of the longest file handed to _read_functions

-----------------------------------------------------------------------------
(* Python values *)

\* the empty dict {}
EmptyDict == [key \in {} |-> 0]

PyNone == [t |-> "None"]
PyStr(s) == [t |-> "str", v |-> s]
PyList(l) == [t |-> "list", v |-> l]

\* truth value of None / a str
Truthy(x) == x.t = "str" /\ x.v # <<>>

\* dict.get(key, default)
Get(d, key, default) == IF key \in DOMAIN d THEN d[key] ELSE default

\* str.lower() of one character, over the model's alphabet
LowerChar(c) ==
    CASE c = "L" -> "l"
      [] c = "S" -> "s"
      [] c = "M" -> "m"
      [] c = "D" -> "d"
      [] OTHER -> c

\* a str.lower() that changes nothing
LowerKeepsCase(s) == s

\* str.lower(); a str is a sequence of characters
Lower(s) == [i \in 1..Len(s) |-> LowerChar(s[i])]

\* Python's `needle in hay` on str
StrIn(needle, hay) ==
    \E i \in 0..(Len(hay) - Len(needle)) :
        SubSeq(hay, i + 1, i + Len(needle)) = needle

-----------------------------------------------------------------------------
(* Chunks handed to the index.  A chunk is a dict: a function from keys.   *)

\* python_extractor._extract_function_info: keys params / return_type
ChunkFn ==
    [type |-> "function", name |-> "f", content_type |-> "code",
     processed_text |-> <<"t1">>,
     params |-> <<[name |-> <<"s">>, type |-> <<"L", "s">>]>>,
     return_type |-> PyStr(<<"s">>)]

\* markdown / rst section after TextProcessor.process_chunk
ChunkSec ==
    [type |-> "section", name |-> "s", content_type |-> "documentation",
     processed_text |-> <<"t2">>]

\* regex-salvaged function that never went through the text processor:
\* keys parameters / returns, no content_type, no processed_text
ChunkRaw ==
    [type |-> "function", name |-> "r", docstring |-> <<"t2">>,
     parameters |-> <<>>, returns |-> PyNone]

ChunkPool == {ChunkFn, ChunkSec, ChunkRaw}

\* the lists of at most n chunks
RECURSIVE ListsUpTo(_)
ListsUpTo(n) ==
    IF n = 0 THEN {<<>>}
    ELSE LET shorter == ListsUpTo(n - 1)
         IN shorter \cup {Append(l, c) : l \in {s \in shorter : Len(s) = n - 1},
                                         c \in ChunkPool}

Batches == ListsUpTo(MaxBatch)

-----------------------------------------------------------------------------
(* Embedder: SentenceTransformer.encode(normalize_embeddings=True)         *)

\* FaissSearchEngine._get_text_for_embedding; a text is a token sequence
GetTextForEmbedding(chunk) ==
    LET text == Get(chunk, "processed_text", <<>>)
        ctype == Get(chunk, "type", "")
        typed ==
            IF text # <<>> THEN text
            ELSE IF ctype \in {"function", "method"}
                 THEN Get(chunk, "function_signature", <<>>) \o <<"\n">>
                        \o Get(chunk, "docstring", <<>>)
            ELSE IF ctype = "class"
                 THEN <<"class ">> \o <<Get(chunk, "name", "")>> \o <<"\n">>
                        \o Get(chunk, "docstring", <<>>)
            ELSE IF ctype = "section"
                 THEN Get(chunk, "title", <<>>) \o <<"\n">>
                        \o Get(chunk, "content", <<>>)
            ELSE IF ctype = "file"
                 THEN <<Get(chunk, "name", "")>> \o <<"\n">>
                        \o Get(chunk, "content", <<>>)
            ELSE text
    IN IF typed # <<>> THEN typed
       ELSE Get(chunk, "content", Get(chunk, "docstring", <<"Empty chunk">>))

\* the deterministic embedder: a unit vector per text
Encode(text) ==
    CASE text = <<"t1">> -> <<1, 0>>
      [] text = <<"t2">> -> <<0, 1>>
      [] text = <<"t3">> -> <<-1, 0>>
      [] text = <<"q1">> -> <<1, 0>>
      [] text = <<"q2">> -> <<0, 1>>
      [] OTHER -> <<0, -1>>

Queries == {<<"q1">>, <<"q2">>}

\* IndexFlatIP metric
InnerProduct(a, b) == a[1] * b[1] + a[2] * b[2]

-----------------------------------------------------------------------------
(* FaissSearchEngine.__init__ / _init_indices *)

NoCall == [op |-> "init"]

EmptyDisk ==
    [meta |-> [exists |-> FALSE],
     chunks |-> [exists |-> FALSE],
     code_chunks |-> [exists |-> FALSE],
     doc_chunks |-> [exists |-> FALSE],
     faiss_index |-> [exists |-> FALSE],
     faiss_code_index |-> [exists |-> FALSE],
     faiss_doc_index |-> [exists |-> FALSE]]

\* the in-memory state as one record
State ==
    [chunks |-> chunks, code_chunks |-> code_chunks, doc_chunks |-> doc_chunks,
     index |-> index, code_index |-> code_index, doc_index |-> doc_index,
     index_metadata |-> index_metadata]

FreshState ==
    [chunks |-> <<>>, code_chunks |-> <<>>, doc_chunks |-> <<>>,
     index |-> <<>>, code_index |-> <<>>, doc_index |-> <<>>,
     index_metadata |-> EmptyDict]

SetState(st) ==
    /\ chunks' = st.chunks
    /\ code_chunks' = st.code_chunks
    /\ doc_chunks' = st.doc_chunks
    /\ index' = st.index
    /\ code_index' = st.code_index
    /\ doc_index' = st.doc_index
    /\ index_metadata' = st.index_metadata

\* a new engine on a data directory holding d, with `budget` interrupted
\* saves and failed reads to come
NewEngineOn(d, budget) ==
    /\ chunks = <<>>
    /\ code_chunks = <<>>
    /\ doc_chunks = <<>>
    /\ index = <<>>
    /\ code_index = <<>>
    /\ doc_index = <<>>
    /\ index_metadata = EmptyDict
    /\ disk = d
    /\ loaded = FALSE
    /\ torn = FALSE
    /\ results = <<>>
    /\ call = NoCall
    /\ faults = budget

\* no section being chunked
TextIdle ==
    /\ section = EmptyDict
    /\ max_chunk_size = 500
    /\ section_chunks = <<>>
    /\ source_lines = <<>>
    /\ read_functions = <<>>

\* a build with the default options in which nothing fails
NoArgs ==
    [file_types |-> << <<"a", "l", "l">> >>, exclude_types |-> <<>>,
     fail |-> [unreadable |-> {}, raising |-> {}]]

\* ... with no signature check and no ingestion under way
Constructed(d, budget) ==
    /\ NewEngineOn(d, budget)
    /\ sig_chunk = ChunkFn
    /\ sig_filter = EmptyDict
    /\ sig_ret = FALSE
    /\ fs = <<>>
    /\ args = NoArgs
    /\ files = <<>>
    /\ all_chunks = <<>>
    /\ TextIdle

\* an empty data directory, every file operation succeeds
Init == Constructed(EmptyDisk, 0)

\* an empty data directory, saves may be interrupted and reads may fail
InitFaulty == Constructed(EmptyDisk, MaxFaults)

-----------------------------------------------------------------------------
(* FaissSearchEngine.add_chunks *)

\* [f(x) for x in xs if p(x)] for the three routings of add_chunks
RECURSIVE OfContentType(_, _)
OfContentType(list, ctype) ==
    IF list = <<>> THEN <<>>
    ELSE LET rest == OfContentType(Tail(list), ctype)
         IN IF Get(Head(list), "content_type", "") = ctype
            THEN <<Head(list)>> \o rest
            ELSE rest

Embeddings(list) == [i \in 1..Len(list) |-> Encode(GetTextForEmbedding(list[i]))]

AddFailures == {"none", "embed", "all", "code", "doc"}

\* add_chunks putting every row of the batch into the code index
AddChunksEffectAllRows(st, batch, fail) ==
    IF batch = <<>> \/ fail # "none"
    THEN [st |-> st, raised |-> fail # "none", torn |-> FALSE]
    ELSE [st |-> [st EXCEPT !.index = @ \o Embeddings(batch),
                            !.chunks = @ \o batch,
                            !.code_index = @ \o Embeddings(batch),
                            !.code_chunks = @ \o OfContentType(batch, "code"),
                            !.doc_index =
                                @ \o Embeddings(OfContentType(batch, "documentation")),
                            !.doc_chunks =
                                @ \o OfContentType(batch, "documentation")],
          raised |-> FALSE, torn |-> FALSE]

\* add_chunks putting the batch in front of the lists
AddChunksEffectInFront(st, batch, fail) ==
    IF batch = <<>> \/ fail # "none"
    THEN [st |-> st, raised |-> fail # "none", torn |-> FALSE]
    ELSE [st |-> [st EXCEPT !.index = Embeddings(batch) \o @,
                            !.chunks = batch \o @,
                            !.code_index =
                                Embeddings(OfContentType(batch, "code")) \o @,
                            !.code_chunks = OfContentType(batch, "code") \o @,
                            !.doc_index =
                                Embeddings(OfContentType(batch, "documentation")) \o @,
                            !.doc_chunks =
                                OfContentType(batch, "documentation") \o @],
          raised |-> FALSE, torn |-> FALSE]

\* the state add_chunks leaves, and whether it raised; `fail` names the
\* call that raises: the embedder or one of the three index.add calls
AddChunksEffect(st, batch, fail) ==
    LET code == OfContentType(batch, "code")
        doc == OfContentType(batch, "documentation")
        s1 == [st EXCEPT !.index = @ \o Embeddings(batch),
                         !.chunks = @ \o batch]
        s2 == IF code # <<>>
              THEN [s1 EXCEPT !.code_index = @ \o Embeddings(code),
                              !.code_chunks = @ \o code]
              ELSE s1
        s3 == IF doc # <<>>
              THEN [s2 EXCEPT !.doc_index = @ \o Embeddings(doc),
                              !.doc_chunks = @ \o doc]
              ELSE s2
    IN IF batch = <<>> THEN [st |-> st, raised |-> FALSE, torn |-> FALSE]
       ELSE IF fail \in {"embed", "all"}
            THEN [st |-> st, raised |-> TRUE, torn |-> FALSE]
       ELSE IF fail = "code" /\ code # <<>>
            THEN [st |-> s1, raised |-> TRUE, torn |-> TRUE]
       ELSE IF fail = "doc" /\ doc # <<>>
            THEN [st |-> s2, raised |-> TRUE, torn |-> TRUE]
       ELSE [st |-> s3, raised |-> FALSE, torn |-> FALSE]

\* a failure that the call can actually meet
CanFail(batch, fail) ==
    \/ fail = "none"
    \/ fail \in {"embed", "all"} /\ batch # <<>>
    \/ fail = "code" /\ OfContentType(batch, "code") # <<>>
    \/ fail = "doc" /\ OfContentType(batch, "documentation") # <<>>

\* the cap on the lengths of the lists and indices
Fits(st, batch) ==
    \A name \in {"chunks", "code_chunks", "doc_chunks",
                  "index", "code_index", "doc_index"} :
        Len(st[name]) + Len(batch) <= MaxChunks

AddChunks ==
    \E batch \in Batches, fail \in AddFailures :
        /\ Fits(State, batch)
        /\ CanFail(batch, fail)
        /\ \E r \in {AddChunksEffect(State, batch, fail)} :
              /\ SetState(r.st)
              /\ torn' = (torn \/ r.torn)
              /\ call' = [op |-> "add_chunks", batch |-> batch,
                          raised |-> r.raised]
        /\ UNCHANGED <<disk, loaded, faults, results, sigvars, ingestvars, textvars>>

-----------------------------------------------------------------------------
(* Persistence: json.dump / json.load and faiss.write_index / read_index   *)

ModelName == "all-MiniLM-L6-v2"
Dimension == 2

StrKeys == {"type", "name", "content_type"}
TextKeys == {"processed_text", "docstring"}
ListKeys == {"params", "parameters"}
OptKeys == {"return_type", "returns"}

\* json.dump of one parameter dict: an object is a set of members
JsonOfParam(p) == {<<key, [j |-> "string", s |-> p[key]]>> : key \in DOMAIN p}

\* json.dump of the value under `key` of a chunk
JsonOfValue(key, v) ==
    IF key \in ListKeys
    THEN [j |-> "array", items |-> [i \in 1..Len(v) |-> JsonOfParam(v[i])]]
    ELSE IF key \in OptKeys
    THEN (IF v.t = "None" THEN [j |-> "null"] ELSE [j |-> "string", s |-> v.v])
    ELSE [j |-> "string", s |-> v]

JsonOfChunk(c) == {<<key, JsonOfValue(key, c[key])>> : key \in DOMAIN c}

\* json.dump(chunks, f)
JsonDump(list) == [i \in 1..Len(list) |-> JsonOfChunk(list[i])]

Member(obj, key) == (CHOOSE m \in obj : m[1] = key)[2]
KeysOf(obj) == {m[1] : m \in obj}

ParamOfJson(obj) == [key \in KeysOf(obj) |-> Member(obj, key).s]

ValueOfJson(key, jv) ==
    IF jv.j = "array"
    THEN [i \in 1..Len(jv.items) |-> ParamOfJson(jv.items[i])]
    ELSE IF jv.j = "null" THEN PyNone
    ELSE IF key \in OptKeys THEN PyStr(jv.s)
    ELSE jv.s

ChunkOfJson(obj) == [key \in KeysOf(obj) |-> ValueOfJson(key, Member(obj, key))]

\* json.load giving the entries last first
JsonLoadReversed(doc) ==
    [i \in 1..Len(doc) |-> ChunkOfJson(doc[Len(doc) + 1 - i])]

\* json.load(f)
JsonLoad(doc) == [i \in 1..Len(doc) |-> ChunkOfJson(doc[i])]

\* faiss.write_index / faiss.read_index of an IndexFlatIP
WriteIndex(rows) == [d |-> Dimension, ntotal |-> Len(rows), xb |-> rows]
ReadIndex(file) == SubSeq(file.xb, 1, file.ntotal)

File(data) == [exists |-> TRUE, data |-> data]

SaveOrder ==
    <<"meta", "chunks", "code_chunks", "doc_chunks",
      "faiss_index", "faiss_code_index", "faiss_doc_index">>

\* what _save_index writes to each file
FileContent(st, name) ==
    CASE name = "meta" ->
            [model_name |-> ModelName, dimension |-> Dimension,
             total_chunks |-> Len(st.chunks),
             code_chunks |-> Len(st.code_chunks),
             doc_chunks |-> Len(st.doc_chunks)]
      [] name = "chunks" -> JsonDump(st.chunks)
      [] name = "code_chunks" -> JsonDump(st.code_chunks)
      [] name = "doc_chunks" -> JsonDump(st.doc_chunks)
      [] name = "faiss_index" -> WriteIndex(st.index)
      [] name = "faiss_code_index" -> WriteIndex(st.code_index)
      [] name = "faiss_doc_index" -> WriteIndex(st.doc_index)

\* FaissSearchEngine._save_index, interrupted after `written` of its
\* seven file writes (7: it ran to the end)
SaveIndexEffect(d, st, written) ==
    [name \in DOMAIN d |->
        IF \E i \in 1..written : SaveOrder[i] = name
        THEN File(FileContent(st, name))
        ELSE d[name]]

\* the interruption points open to a save: every one while a fault is
\* still to come, else only the complete run
Interruptions == IF faults > 0 THEN 0..7 ELSE {7}

\* FaissSearchEngine.build_index on state st: the disk it leaves
BuildIndexEffect(d, st, written) ==
    IF st.chunks = <<>> THEN [disk |-> d, saved |-> FALSE, raised |-> FALSE]
    ELSE [disk |-> SaveIndexEffect(d, st, written), saved |-> written = 7,
          raised |-> written < 7]

\* FaissSearchEngine.build_index / SearchEngine.build_index
BuildIndex ==
    \E written \in Interruptions :
        /\ chunks = <<>> => written = 7
        /\ \E r \in {BuildIndexEffect(disk, State, written)} :
              /\ disk' = r.disk
              /\ faults' = IF r.raised THEN faults - 1 ELSE faults
              /\ call' = [op |-> "build_index", saved |-> r.saved,
                          raised |-> r.raised]
        /\ UNCHANGED <<engine, results, sigvars, ingestvars, textvars>>

\* the attribute each step of _load_index assigns, in order
LoadOrder ==
    <<"index_metadata", "chunks", "code_chunks", "doc_chunks",
      "index", "code_index", "doc_index">>

\* _load_chunks / _load_faiss_index / the metadata read: step i of the load
LoadStep(st, d, i) ==
    LET name == SaveOrder[i]
    IN IF ~d[name].exists THEN st
       ELSE [st EXCEPT ![LoadOrder[i]] =
                IF i = 1 THEN d[name].data
                ELSE IF i \in 2..4 THEN JsonLoad(d[name].data)
                ELSE ReadIndex(d[name].data)]

RECURSIVE LoadSteps(_, _, _)
LoadSteps(st, d, n) ==
    IF n = 0 THEN st ELSE LoadStep(LoadSteps(st, d, n - 1), d, n)

\* FaissSearchEngine._load_index; `rdfail` is the read that raises (0: none)
LoadIndexEffect(st, d, rdfail) ==
    IF ~d.meta.exists THEN [ok |-> FALSE, st |-> st, assigned |-> FALSE]
    ELSE IF rdfail = 0 THEN [ok |-> TRUE, st |-> LoadSteps(st, d, 7),
                             assigned |-> TRUE]
    ELSE [ok |-> FALSE, st |-> LoadSteps(st, d, rdfail - 1),
          assigned |-> rdfail > 1]

\* a read can fail only on a file that is there
CanFailRead(d, rdfail) ==
    IF rdfail = 0 THEN TRUE
    ELSE d.meta.exists /\ d[SaveOrder[rdfail]].exists

\* the reads that may fail: any while a fault is still to come
ReadFailures == IF faults > 0 THEN 0..7 ELSE {0}

\* SearchEngine.load_index / SearchService.load_index
LoadIndex ==
    \E rdfail \in ReadFailures :
        /\ CanFailRead(disk, rdfail)
        /\ \E r \in {LoadIndexEffect(State, disk, rdfail)} :
              /\ SetState(r.st)
              /\ loaded' = (loaded \/ r.assigned)
              /\ faults' = IF rdfail # 0 THEN faults - 1 ELSE faults
              /\ call' = [op |-> "load_index", ret |-> r.ok]
        /\ UNCHANGED <<disk, torn, results, sigvars, ingestvars, textvars>>

\* SearchService.get_index_status / CodeCognitioOperations.get_index_status:
\* without faiss_index.bin "not_found", else the outcome of load_index
GetIndexStatus ==
    \E rdfail \in ReadFailures :
        /\ CanFailRead(disk, rdfail)
        /\ IF ~disk.faiss_index.exists
           THEN /\ rdfail = 0
                /\ call' = [op |-> "get_index_status", status |-> "not_found"]
                /\ UNCHANGED <<engine, loaded, faults>>
           ELSE \E r \in {LoadIndexEffect(State, disk, rdfail)} :
                    /\ SetState(r.st)
                    /\ loaded' = (loaded \/ r.assigned)
                    /\ faults' = IF rdfail # 0 THEN faults - 1 ELSE faults
                    /\ call' = [op |-> "get_index_status",
                                status |-> IF r.ok THEN "ready" ELSE "error",
                                chunks |-> Len(r.st.chunks)]
        /\ UNCHANGED <<disk, torn, results, sigvars, ingestvars, textvars>>

-----------------------------------------------------------------------------
(* Searching *)

\* the score FAISS reports for a missing neighbour (index -1)
MinFloat == -99

\* IndexFlatIP.search(query, k): the k best rows by inner product, best
\* first, as (0-based row, score) pairs padded with (-1, MinFloat)
IndexSearch(rows, qv, kk) ==
    LET n == Len(rows)
        Before(i, j) ==
            \/ InnerProduct(rows[i], qv) > InnerProduct(rows[j], qv)
            \/ InnerProduct(rows[i], qv) = InnerProduct(rows[j], qv) /\ i < j
        Rank(i) == 1 + Cardinality({j \in 1..n : Before(j, i)})
        At(p) == CHOOSE i \in 1..n : Rank(i) = p
    IN [p \in 1..kk |->
            IF p <= n
            THEN [idx |-> At(p) - 1, score |-> InnerProduct(rows[At(p)], qv)]
            ELSE [idx |-> -1, score |-> MinFloat]]

\* the loop stopping at the first score above min_score instead of below
RECURSIVE BuildResultsFlipped(_, _, _, _, _, _)
BuildResultsFlipped(found, p, list, top_k, min_score, acc) ==
    IF p > Len(found) THEN acc
    ELSE IF Len(acc) >= top_k \/ found[p].score > min_score THEN acc
    ELSE IF found[p].idx < 0 \/ found[p].idx >= Len(list)
         THEN BuildResultsFlipped(found, p + 1, list, top_k, min_score, acc)
    ELSE BuildResultsFlipped(found, p + 1, list, top_k, min_score,
            Append(acc, [chunk |-> list[found[p].idx + 1],
                         score |-> found[p].score]))

\* the result-building loop of FaissSearchEngine.search, from position p
RECURSIVE BuildResults(_, _, _, _, _, _)
BuildResults(found, p, list, top_k, min_score, acc) ==
    IF p > Len(found) THEN acc
    ELSE IF Len(acc) >= top_k \/ found[p].score < min_score THEN acc
    ELSE IF found[p].idx < 0 \/ found[p].idx >= Len(list)
         THEN BuildResults(found, p + 1, list, top_k, min_score, acc)
    ELSE BuildResults(found, p + 1, list, top_k, min_score,
            Append(acc, [chunk |-> list[found[p].idx + 1],
                         score |-> found[p].score]))

\* the collection FaissSearchEngine.search picks
Collection(st, content_filter) ==
    IF content_filter = "code" /\ Len(st.code_index) > 0
    THEN [index |-> st.code_index, chunks |-> st.code_chunks]
    ELSE IF content_filter = "documentation" /\ Len(st.doc_index) > 0
    THEN [index |-> st.doc_index, chunks |-> st.doc_chunks]
    ELSE [index |-> st.index, chunks |-> st.chunks]

\* SearchLoaded without the min_score floor
SearchLoadedNoFloor(st, q, top_k, content_filter, min_score) ==
    LET c == Collection(st, content_filter)
    IN BuildResults(IndexSearch(c.index, Encode(q), top_k * 2), 1,
                    c.chunks, top_k, MinFloat, <<>>)

\* the search proper, on a state that needs no load
SearchLoaded(st, q, top_k, content_filter, min_score) ==
    LET c == Collection(st, content_filter)
    IN BuildResults(IndexSearch(c.index, Encode(q), top_k * 2), 1,
                    c.chunks, top_k, min_score, <<>>)

\* a search answering a failed load with a placeholder entry
SearchAfterLoadPlaceholder(r, q, top_k, content_filter, min_score) ==
    [results |-> IF r.ok
                 THEN SearchLoaded(r.st, q, top_k, content_filter, min_score)
                 ELSE <<[chunk |-> EmptyDict, score |-> min_score]>>,
     st |-> r.st, assigned |-> r.assigned, autoload |-> TRUE]

\* FaissSearchEngine.search after its _load_index call returned r
SearchAfterLoad(r, q, top_k, content_filter, min_score) ==
    [results |-> IF r.ok
                 THEN SearchLoaded(r.st, q, top_k, content_filter, min_score)
                 ELSE <<>>,
     st |-> r.st, assigned |-> r.assigned, autoload |-> TRUE]

\* FaissSearchEngine.search: the returned list and the state it leaves
FaissSearch(st, d, q, top_k, content_filter, min_score, rdfail) ==
    IF Len(st.index) = 0
    THEN SearchAfterLoad(LoadIndexEffect(st, d, rdfail), q, top_k,
                         content_filter, min_score)
    ELSE [results |-> SearchLoaded(st, q, top_k, content_filter, min_score),
          st |-> st, assigned |-> FALSE, autoload |-> FALSE]

\* the slice list[:n]
Take(list, n) == SubSeq(list, 1, IF n < Len(list) THEN n ELSE Len(list))

\* SearchEngine._matches_signature_filter
MatchesSignatureFilter(chunk, signature_filter) ==
    LET parameters == Get(chunk, "parameters", Get(chunk, "params", <<>>))
        Found(field, wanted) ==
            \E i \in 1..Len(parameters) :
                LET value == Get(parameters[i], field, <<>>)
                IN value # <<>> /\ StrIn(Lower(wanted), Lower(value))
        function_return_type ==
            Get(chunk, "return_type", Get(chunk, "returns", PyStr(<<>>)))
    IN IF Get(chunk, "type", "") \notin {"function", "method"} THEN FALSE
       ELSE IF "param_type" \in DOMAIN signature_filter
               /\ ~Found("type", signature_filter["param_type"].v)
            THEN FALSE
       ELSE IF "param_name" \in DOMAIN signature_filter
               /\ ~Found("name", signature_filter["param_name"].v)
            THEN FALSE
       ELSE IF "return_type" \in DOMAIN signature_filter
               /\ (\/ ~Truthy(function_return_type)
                   \/ ~StrIn(Lower(signature_filter["return_type"].v),
                             Lower(function_return_type.v)))
            THEN FALSE
       ELSE TRUE

\* a filter argument that is None or empty is falsy
NoFilter == EmptyDict
NoType == ""

\* the filtering loop of SearchEngine.search
RECURSIVE EngineFilter(_, _, _, _, _)
EngineFilter(found, top_k, type_filter, signature_filter, acc) ==
    IF found = <<>> THEN acc
    ELSE LET chunk == Head(found).chunk
             rest == Tail(found)
         IN IF type_filter # NoType /\ Get(chunk, "type", "") # type_filter
            THEN EngineFilter(rest, top_k, type_filter, signature_filter, acc)
            ELSE IF signature_filter # NoFilter
                    /\ ~MatchesSignatureFilter(chunk, signature_filter)
            THEN EngineFilter(rest, top_k, type_filter, signature_filter, acc)
            ELSE IF Len(acc) + 1 >= top_k THEN Append(acc, Head(found))
            ELSE EngineFilter(rest, top_k, type_filter, signature_filter,
                              Append(acc, Head(found)))

\* SearchEngine.search
EngineSearch(st, d, q, top_k, content_filter, min_score, type_filter, signature_filter, rdfail) ==
    LET r == FaissSearch(st, d, q, top_k * 3, content_filter, min_score, rdfail)
        filtered == EngineFilter(r.results, top_k, type_filter,
                                 signature_filter, <<>>)
    IN [r EXCEPT !.results = Take(filtered, top_k)]

\* the signature test of SearchService.search: chunk.get(key) != value
ServiceSignatureMatch(chunk, signature_filter) ==
    \A key \in DOMAIN signature_filter :
        Get(chunk, key, PyNone) = signature_filter[key]

\* the filtering loop of SearchService.search
RECURSIVE ServiceFilter(_, _, _)
ServiceFilter(found, type_filter, signature_filter) ==
    IF found = <<>> THEN <<>>
    ELSE LET chunk == Head(found).chunk
             rest == ServiceFilter(Tail(found), type_filter, signature_filter)
         IN IF type_filter # NoType /\ Get(chunk, "type", "") # type_filter
            THEN rest
            ELSE IF signature_filter # NoFilter
                    /\ ~ServiceSignatureMatch(chunk, signature_filter)
            THEN rest
            ELSE <<Head(found)>> \o rest

\* SearchService.search
ServiceSearch(st, d, q, top_k, content_filter, min_score, type_filter, signature_filter, rdfail) ==
    LET r == FaissSearch(st, d, q, top_k, content_filter, min_score, rdfail)
    IN IF type_filter # NoType \/ signature_filter # NoFilter
       THEN [r EXCEPT !.results =
                ServiceFilter(r.results, type_filter, signature_filter)]
       ELSE r

ContentFilters == {"", "code", "documentation"}
MinScores == {0, 1}
\* (type_filter, signature_filter) pairs handed to the wrappers
PostFilters ==
    {<<NoType, NoFilter>>, <<"function", NoFilter>>,
     <<NoType, [param_type |-> PyStr(<<"l">>)]>>}

\* one search call through entry point `op`
SearchCall(op, q, top_k, content_filter, min_score, post, rdfail) ==
    /\ CanFailRead(disk, rdfail)
    /\ rdfail # 0 => Len(index) = 0
    /\ \E r \in {CASE op = "faiss_search" ->
                    FaissSearch(State, disk, q, top_k, content_filter,
                                min_score, rdfail)
               [] op = "engine_search" ->
                    EngineSearch(State, disk, q, top_k, content_filter,
                                 min_score, post[1], post[2], rdfail)
               [] op = "service_search" ->
                    ServiceSearch(State, disk, q, top_k, content_filter,
                                  min_score, post[1], post[2], rdfail)} :
       /\ SetState(r.st)
       /\ loaded' = (loaded \/ r.assigned)
       /\ results' = r.results
       /\ call' = [op |-> op, query |-> q, top_k |-> top_k,
                   content_filter |-> content_filter, min_score |-> min_score,
                   type_filter |-> post[1], signature_filter |-> post[2],
                   autoload |-> r.autoload]
    /\ faults' = IF rdfail # 0 THEN faults - 1 ELSE faults
    /\ UNCHANGED <<disk, torn, sigvars, ingestvars, textvars>>

\* FaissSearchEngine.search
Search ==
    \E q \in Queries, top_k \in 1..MaxK, content_filter \in ContentFilters,
       min_score \in MinScores, rdfail \in ReadFailures :
        SearchCall("faiss_search", q, top_k, content_filter, min_score,
                   <<NoType, NoFilter>>, rdfail)

\* SearchEngine.search
SearchEngineSearch ==
    \E q \in Queries, top_k \in 1..MaxK, content_filter \in ContentFilters,
       min_score \in MinScores, post \in PostFilters, rdfail \in ReadFailures :
        SearchCall("engine_search", q, top_k, content_filter, min_score,
                   post, rdfail)

\* SearchService.search
SearchServiceSearch ==
    \E q \in Queries, top_k \in 1..MaxK, content_filter \in ContentFilters,
       min_score \in MinScores, post \in PostFilters, rdfail \in ReadFailures :
        SearchCall("service_search", q, top_k, content_filter, min_score,
                   post, rdfail)

\* a new process, or a new engine object on the same data directory
NewEngine ==
    /\ SetState(FreshState)
    /\ loaded' = FALSE
    /\ torn' = FALSE
    /\ results' = <<>>
    /\ call' = [op |-> "new"]
    /\ UNCHANGED <<disk, faults, sigvars, ingestvars, textvars>>

-----------------------------------------------------------------------------
(* The build entry points; `batch` is what process_files made of the paths *)

\* SearchService.build_index on engine state st: add_chunks under try/except
ServiceBuildEffect(st, batch, fail) ==
    LET r == AddChunksEffect(st, batch, fail)
    IN [st |-> r.st, success |-> ~r.raised, torn |-> r.torn]

\* CodeCognitioOperations.build_index: the instance's own search service;
\* `reported` is the outcome the entry point gives its caller
OpsBuild ==
    \E batch \in Batches, fail \in AddFailures :
        /\ Fits(State, batch)
        /\ CanFail(batch, fail)
        /\ \E r \in {ServiceBuildEffect(State, batch, fail)} :
              /\ SetState(r.st)
              /\ torn' = (torn \/ r.torn)
              /\ call' = [op |-> "ops_build", batch |-> batch, fail |-> fail,
                          success |-> r.success, reported |-> r.success]
        /\ UNCHANGED <<disk, loaded, faults, results, sigvars, ingestvars, textvars>>

\* core/cli.build_index: a new SearchService, then its build_index, whose
\* return value is dropped: the command always ends normally
CliBuild ==
    \E batch \in Batches, fail \in AddFailures :
        /\ CanFail(batch, fail)
        /\ \E r \in {ServiceBuildEffect(FreshState, batch, fail)} :
              /\ SetState(r.st)
              /\ torn' = r.torn
              /\ call' = [op |-> "cli_build", batch |-> batch, fail |-> fail,
                          success |-> r.success, reported |-> TRUE]
        /\ loaded' = FALSE
        /\ results' = <<>>
        /\ UNCHANGED <<disk, faults, sigvars, ingestvars, textvars>>

\* main.build_index: a new SearchEngine, add_chunks, then build_index; an
\* exception of add_chunks ends the run before the save
MainBuildEffect(d, batch, fail, written) ==
    LET a == AddChunksEffect(FreshState, batch, fail)
        b == IF a.raised THEN [disk |-> d, saved |-> FALSE, raised |-> FALSE]
             ELSE BuildIndexEffect(d, a.st, written)
    IN [st |-> a.st, torn |-> a.torn, disk |-> b.disk, saved |-> b.saved,
        interrupted |-> b.raised, success |-> ~a.raised /\ ~b.raised]

MainBuild ==
    \E batch \in Batches, fail \in AddFailures, written \in Interruptions :
        /\ CanFail(batch, fail)
        /\ (batch = <<>> \/ fail # "none") => written = 7
        /\ \E r \in {MainBuildEffect(disk, batch, fail, written)} :
              /\ SetState(r.st)
              /\ torn' = r.torn
              /\ disk' = r.disk
              /\ faults' = IF r.interrupted THEN faults - 1 ELSE faults
              /\ call' = [op |-> "main_build", batch |-> batch, fail |-> fail,
                          success |-> r.success, reported |-> r.success,
                          saved |-> r.saved]
        /\ loaded' = FALSE
        /\ results' = <<>>
        /\ UNCHANGED <<sigvars, ingestvars, textvars>>

\* the engine, its persistence and the build entry points
Next ==
    \/ AddChunks
    \/ BuildIndex
    \/ LoadIndex
    \/ GetIndexStatus
    \/ NewEngine
    \/ OpsBuild
    \/ CliBuild
    \/ MainBuild

Spec == Init /\ [][Next]_vars

\* the engine and its persistence
NextEngine ==
    \/ AddChunks
    \/ BuildIndex
    \/ LoadIndex
    \/ GetIndexStatus
    \/ NewEngine

\* the data directories a search process may start on: an empty one, or
\* the index an earlier build of one of these corpora persisted
PersistedCorpora == {<<>>, <<ChunkSec, ChunkFn>>, <<ChunkSec, ChunkRaw>>}

PersistedDisks ==
    {BuildIndexEffect(EmptyDisk, AddChunksEffect(FreshState, corpus, "none").st,
                      7).disk : corpus \in PersistedCorpora}

InitSearch == \E d \in PersistedDisks : Constructed(d, 0)

NextSearch ==
    \/ AddChunks
    \/ NewEngine
    \/ Search
    \/ SearchEngineSearch
    \/ SearchServiceSearch

\* the engine and its three search entry points
SpecSearch == InitSearch /\ [][NextSearch]_vars

\* the engine and its persistence under interrupted saves and failed reads
SpecFaulty == InitFaulty /\ [][NextEngine]_vars

-----------------------------------------------------------------------------
(* SearchEngine._matches_signature_filter on its own *)

\* the strings of 1..n characters over `alphabet`
RECURSIVE StrsOver(_, _)
StrsOver(alphabet, n) ==
    IF n = 0 THEN {}
    ELSE LET shorter == StrsOver(alphabet, n - 1)
         IN {<<c>> : c \in alphabet}
              \cup {Append(s, c) : s \in shorter, c \in alphabet}

\* filter values as the command line gives them, names and types as the
\* extractors emit them: never empty, cases mixed between the two
Needles == StrsOver({"L", "s"}, MaxStr)
Hays == StrsOver({"l", "S"}, MaxStr)

\* a parameter dict: a name, and a type when the parameter is annotated
SigParamDicts ==
    {[name |-> n] : n \in Hays}
        \cup {[name |-> n, type |-> t] : n \in Hays, t \in Hays}

RECURSIVE SigParamLists(_)
SigParamLists(n) ==
    IF n = 0 THEN {<<>>}
    ELSE LET shorter == SigParamLists(n - 1)
         IN shorter \cup {Append(l, d) : l \in {s \in shorter : Len(s) = n - 1},
                                         d \in SigParamDicts}

SigReturns == {PyNone} \cup {PyStr(s) : s \in Hays}

\* chunks under the two key conventions of the extractors, and chunks
\* without either
SigChunks ==
    {[type |-> kind, params |-> ps, return_type |-> ret] :
        kind \in {"function", "method", "class"},
        ps \in SigParamLists(MaxParams), ret \in SigReturns}
    \cup {[type |-> kind, parameters |-> ps, returns |-> ret] :
        kind \in {"function", "method", "class"},
        ps \in SigParamLists(MaxParams), ret \in SigReturns}
    \cup {[type |-> kind] : kind \in {"function", "method", "class"}}

SigKeys == {"param_type", "param_name", "return_type"}

\* signature filters: any of the three keys, each with a needle
SigFilters ==
    UNION {[keys -> {PyStr(s) : s \in Needles}] : keys \in SUBSET SigKeys}

InitSig ==
    /\ NewEngineOn(EmptyDisk, 0)
    /\ sig_chunk \in SigChunks
    /\ sig_filter \in SigFilters
    /\ sig_ret = FALSE
    /\ fs = <<>>
    /\ args = NoArgs
    /\ files = <<>>
    /\ all_chunks = <<>>
    /\ TextIdle

\* one call of SearchEngine._matches_signature_filter
MatchSignature ==
    /\ call.op = "init"
    /\ sig_ret' = MatchesSignatureFilter(sig_chunk, sig_filter)
    /\ call' = [op |-> "matches_signature_filter"]
    /\ UNCHANGED <<engine, disk, faults, results, sig_chunk, sig_filter,
                   ingestvars, textvars>>

NextSig == MatchSignature

SpecSig == InitSig /\ [][NextSig]_vars

-----------------------------------------------------------------------------
(* Ingestion: the files of a build, the extractor dispatch and the         *)
(* extractors.  File and identifier names are strs (sequences of           *)
(* characters); prose is a sequence of words.                              *)

\* str.startswith / str.endswith
StartsWith(s, prefix) ==
    Len(prefix) <= Len(s) /\ SubSeq(s, 1, Len(prefix)) = prefix

EndsWith(s, suffix) ==
    Len(suffix) <= Len(s)
        /\ SubSeq(s, Len(s) - Len(suffix) + 1, Len(s)) = suffix

\* os.path.splitext(file_path)[1]: from the last dot of the basename on,
\* leading dots not counted
Splitext(name) ==
    LET dots == {i \in 1..Len(name) :
                    name[i] = "." /\ \E j \in 1..(i - 1) : name[j] # "."}
    IN IF dots = {} THEN <<>>
       ELSE LET last == CHOOSE i \in dots : \A j \in dots : j <= i
            IN SubSeq(name, last, Len(name))

\* s[1:]
Rest(s) == SubSeq(s, 2, Len(s))

\* the files a build may meet.  A file is the directories between the
\* root and it, its basename, and its content as the parser of its
\* extractor reads it: for Python the module docstring and the
\* FunctionDef / ClassDef nodes of ast.parse
FilePool ==
    LET DefAdd ==
            [node |-> "FunctionDef", name |-> <<"a", "d", "d">>,
             docstring |-> <<"The", "sum", ".">>,
             args |-> <<[arg |-> <<"a">>, annotation |-> PyStr(<<"i", "n", "t">>)],
                        [arg |-> <<"b">>, annotation |-> PyNone]>>,
             returns |-> PyStr(<<"i", "n", "t">>)]
        DefGet ==
            [node |-> "FunctionDef", name |-> <<"g", "e", "t">>, docstring |-> <<>>,
             args |-> <<[arg |-> <<"s", "e", "l", "f">>, annotation |-> PyNone]>>,
             returns |-> PyNone]
        ClassBox ==
            [node |-> "ClassDef", name |-> <<"B", "o", "x">>,
             docstring |-> <<"A", "box">>, body |-> <<DefGet>>]
    IN {[dirs |-> <<>>, name |-> <<"a", ".", "p", "y">>, lang |-> "python",
         module_doc |-> PyStr(<<"Sums", ".">>), body |-> <<DefAdd, ClassBox>>],
        [dirs |-> << <<".", "g", "i", "t">> >>, name |-> <<"h", ".", "p", "y">>, lang |-> "python",
         module_doc |-> PyNone, body |-> <<DefGet>>],
        [dirs |-> <<>>, name |-> <<"a", ".", "g", "i", "t", ".", "p", "y">>, lang |-> "python",
         module_doc |-> PyNone, body |-> <<DefAdd>>],
        [dirs |-> <<>>, name |-> <<"r", ".", "m", "d">>, lang |-> "markdown",
         sections |-> <<[title |-> <<"Usage">>,
                         content |-> <<"Run", "the", "sum">>]>>,
         code_blocks |-> <<>>],
        [dirs |-> << <<"n", "o", "d", "e", "_", "m", "o", "d", "u", "l", "e", "s">> >>, name |-> <<"v", ".", "M", "D">>, lang |-> "markdown",
         sections |-> <<[title |-> <<"Notes">>, content |-> <<"A", "box">>]>>,
         code_blocks |-> <<>>],
        [dirs |-> <<>>, name |-> <<"x", ".", "m", "a", "r", "k", "d", "o", "w", "n">>, lang |-> "markdown",
         sections |-> <<[title |-> <<"Notes">>, content |-> <<"the", "sum">>]>>,
         code_blocks |-> <<>>],
        [dirs |-> <<>>, name |-> <<"D", "o", "c", "k", "e", "r", "f", "i", "l", "e">>, lang |-> "dockerfile",
         instructions |-> <<[instruction |-> <<"F", "R", "O", "M">>, value |-> <<"x">>]>>],
        [dirs |-> <<>>, name |-> <<"n", ".", "d", "a", "t">>, lang |-> "text",
         content |-> <<"A", "box">>],
        [dirs |-> <<>>, name |-> <<".", "e", "n", "v">>, lang |-> "text",
         content |-> <<"box">>]}

\* os.path.join(root, filename)
FilePath(file) == [dirs |-> file.dirs, name |-> file.name]

\* os.path.basename
Basename(file_path) == file_path.name

\* CodeExtractor.extractors
CodeExtractors ==
    { <<".", "p", "y">>, <<".", "j", "s">>, <<".", "j", "s", "x">>, <<".", "t", "s">>, <<".", "t", "s", "x">>, <<".", "d", "o", "c", "k", "e", "r", "f", "i", "l", "e">>, <<".", "D", "o", "c", "k", "e", "r", "f", "i", "l", "e">> }

\* CodeExtractor.extension_aliases
CodeAliases == { <<".", "p", "y", "w">>, <<".", "p", "y", "c">>, <<".", "p", "y", "i">> }

\* CodeExtractor.file_patterns
FilePatterns ==
    { <<"D", "o", "c", "k", "e", "r", "f", "i", "l", "e">>, <<"d", "o", "c", "k", "e", "r", "f", "i", "l", "e">>, <<"d", "o", "c", "k", "e", "r", "-", "c", "o", "m", "p", "o", "s", "e", ".", "y", "m", "l">>, <<"d", "o", "c", "k", "e", "r", "-", "c", "o", "m", "p", "o", "s", "e", ".", "y", "a", "m", "l">> }

\* CodeExtractor.get_supported_extensions
CodeSupportedExtensions == CodeExtractors \cup CodeAliases

\* DocExtractor.extractors
DocExtractors == { <<".", "m", "d">>, <<".", "m", "a", "r", "k", "d", "o", "w", "n">>, <<".", "r", "s", "t">>, <<".", "r", "e", "s", "t">> }

\* DocExtractor.extension_aliases
DocAliases ==
    { <<".", "m", "d", "o", "w", "n">>, <<".", "m", "k", "d">>, <<".", "m", "d", "w", "n">>, <<".", "m", "d", "t", "x", "t">>, <<".", "m", "d", "t", "e", "x", "t">>, <<".", "r", "m", "d">>, <<".", "t", "x", "t">> }

\* DocExtractor.get_supported_extensions
DocSupportedExtensions == DocExtractors \cup DocAliases

\* PythonExtractor._extract_function_info
FunctionInfo(node, file_path, class_name) ==
    [type |-> IF class_name # PyNone THEN "method" ELSE "function",
     name |-> node.name,
     class_name |-> class_name,
     full_name |-> IF class_name # PyNone
                   THEN class_name.v \o <<".">> \o node.name
                   ELSE node.name,
     docstring |-> node.docstring,
     file_path |-> file_path,
     params |-> [i \in 1..Len(node.args) |->
                    IF node.args[i].annotation # PyNone
                    THEN [name |-> node.args[i].arg,
                          type |-> node.args[i].annotation.v]
                    ELSE [name |-> node.args[i].arg]],
     return_type |-> node.returns,
     content_type |-> "code"]

\* PythonExtractor._extract_class_info
ClassInfo(node, file_path) ==
    [type |-> "class", name |-> node.name, docstring |-> node.docstring,
     file_path |-> file_path]

\* the methods of a class body, in source order
RECURSIVE MethodInfos(_, _, _)
MethodInfos(body, file_path, class_name) ==
    IF body = <<>> THEN <<>>
    ELSE (IF Head(body).node = "FunctionDef"
          THEN <<FunctionInfo(Head(body), file_path, PyStr(class_name))>>
          ELSE <<>>)
         \o MethodInfos(Tail(body), file_path, class_name)

\* the nodes of one level of the tree, then those one level below:
\* ast.walk is breadth first
RECURSIVE Children(_)
Children(nodes) ==
    IF nodes = <<>> THEN <<>>
    ELSE (IF Head(nodes).node = "ClassDef" THEN Head(nodes).body ELSE <<>>)
         \o Children(Tail(nodes))

\* the items the nodes of one level add: a function, or a class followed
\* by its methods
RECURSIVE WalkItems(_, _)
WalkItems(nodes, file_path) ==
    IF nodes = <<>> THEN <<>>
    ELSE LET node == Head(nodes)
         IN (IF node.node = "FunctionDef"
             THEN <<FunctionInfo(node, file_path, PyNone)>>
             ELSE <<ClassInfo(node, file_path)>>
                    \o MethodInfos(node.body, file_path, node.name))
            \o WalkItems(Tail(nodes), file_path)

\* PythonExtractor._extract_from_content
PythonExtract(file) ==
    LET file_path == FilePath(file)
        module_doc ==
            IF file.module_doc # PyNone
            THEN <<[type |-> "module", name |-> Basename(file_path),
                    docstring |-> file.module_doc.v, file_path |-> file_path]>>
            ELSE <<>>
    IN module_doc \o WalkItems(file.body, file_path)
                  \o WalkItems(Children(file.body), file_path)

\* MarkdownExtractor.extract_from_file
MarkdownExtract(file) ==
    LET file_path == FilePath(file)
    IN [i \in 1..Len(file.sections) |->
            [type |-> "section", title |-> file.sections[i].title,
             content |-> file.sections[i].content, file_path |-> file_path,
             content_type |-> "documentation"]]
       \o [i \in 1..Len(file.code_blocks) |->
            [type |-> "code_block", content |-> file.code_blocks[i],
             file_path |-> file_path, content_type |-> "documentation"]]

\* DockerfileExtractor.extract_from_content
DockerfileExtract(file) ==
    LET file_path == FilePath(file)
    IN <<[type |-> "dockerfile", name |-> Basename(file_path),
          file_path |-> file_path, content_type |-> "code",
          language |-> "dockerfile"]>>
       \o [i \in 1..Len(file.instructions) |->
            [type |-> "dockerfile_instruction",
             name |-> file.instructions[i].instruction,
             value |-> file.instructions[i].value,
             file_path |-> file_path, language |-> "dockerfile",
             content_type |-> "code"]]

\* CodeExtractor._extract_generic
ExtractGeneric(file) ==
    <<[type |-> "file", name |-> Basename(FilePath(file)),
       file_path |-> FilePath(file), content |-> file.content,
       content_type |-> "code"]>>

\* DocExtractor._extract_generic
DocExtractGeneric(file) ==
    <<[type |-> "section", title |-> Basename(FilePath(file)),
       content |-> file.content, file_path |-> FilePath(file),
       content_type |-> "documentation"]>>

\* the extractor of a language on a file of that language; the files of
\* the model are Python, Markdown, Dockerfile and plain text
RunExtractor(file) ==
    CASE file.lang = "python" -> PythonExtract(file)
      [] file.lang = "markdown" -> MarkdownExtract(file)
      [] file.lang = "dockerfile" -> DockerfileExtract(file)

\* CodeExtractor.extract_from_file
CodeExtractFromFile(file) ==
    LET filename == Basename(FilePath(file))
        ext == Lower(Splitext(filename))
        target == IF ext \in CodeAliases THEN <<".", "p", "y">> ELSE ext
    IN IF filename \in FilePatterns THEN RunExtractor(file)
       ELSE IF target \in CodeExtractors THEN RunExtractor(file)
       ELSE ExtractGeneric(file)

\* DocExtractor.extract_from_file
DocExtractFromFile(file) ==
    LET ext == Lower(Splitext(Basename(FilePath(file))))
        target == IF ext \in DocAliases THEN <<".", "m", "d">> ELSE ext
    IN IF target \in DocExtractors THEN RunExtractor(file)
       ELSE DocExtractGeneric(file)

\* FileProcessor._extract_chunks; None when no extractor claims the file
ExtractChunks(file, ext, filename) ==
    IF ext \in CodeSupportedExtensions THEN PyList(CodeExtractFromFile(file))
    ELSE IF filename \in FilePatterns THEN PyList(CodeExtractFromFile(file))
    ELSE IF ext \in DocSupportedExtensions THEN PyList(DocExtractFromFile(file))
    ELSE PyNone

-----------------------------------------------------------------------------
(* TextProcessor *)

\* str.lower() of one word, over the words the model's files hold
LowerWord(w) ==
    CASE w = "The" -> "the"
      [] w = "A" -> "a"
      [] w = "Run" -> "run"
      [] w = "Sums" -> "sums"
      [] w = "Usage" -> "usage"
      [] w = "Notes" -> "notes"
      [] OTHER -> w

\* TextProcessor.clean_text: lower, strip punctuation, drop stop words;
\* string.punctuation and the default stop words as far as the model's
\* files use them
CleanText(text) ==
    LET lowered == [i \in 1..Len(text) |-> LowerWord(text[i])]
        punctuation == {"."}
        stop_words == {"a", "an", "the"}
        Kept(w) == w \notin punctuation /\ w \notin stop_words
    IN SelectSeq(lowered, Kept)

\* TextProcessor._remove_code_blocks: a fenced or indented block is one
\* word of the content
RemoveCodeBlocks(text) ==
    LET Prose(w) == w # "<code>"
    IN SelectSeq(text, Prose)

\* sep.join(strs)
RECURSIVE Join(_, _)
Join(sep, strs) ==
    IF strs = <<>> THEN <<>>
    ELSE IF Len(strs) = 1 THEN strs[1]
    ELSE strs[1] \o sep \o Join(sep, Tail(strs))

\* TextProcessor._get_function_signature
GetFunctionSignature(func_data) ==
    LET name == Get(func_data, "full_name", Get(func_data, "name", <<>>))
        parameters == Get(func_data, "parameters", <<>>)
        Param(param) ==
            IF Get(param, "type", <<>>) # <<>>
            THEN Get(param, "name", <<>>) \o <<":", " ">> \o Get(param, "type", <<>>)
            ELSE Get(param, "name", <<>>)
        returns == Get(func_data, "returns", PyStr(<<>>))
    IN name \o <<"(">>
            \o Join(<<",", " ">>, [i \in 1..Len(parameters) |-> Param(parameters[i])])
            \o <<")">>
            \o (IF Truthy(returns) THEN <<" ", "-", ">", " ">> \o returns.v ELSE <<>>)

\* the section_type chain of process_chunk; a title is a sequence of
\* words and `word in section_title` finds one of them
SectionType(title) ==
    LET section_title == [i \in 1..Len(title) |-> LowerWord(title[i])]
        HasWord(word) == \E i \in 1..Len(title) : section_title[i] = word
    IN IF HasWord("install") \/ HasWord("setup") THEN "installation"
       ELSE IF HasWord("usage") \/ HasWord("example") THEN "usage"
       ELSE IF HasWord("api") \/ HasWord("reference") THEN "reference"
       ELSE IF HasWord("config") THEN "configuration"
       ELSE "general"

\* TextProcessor.process_chunk: a copy of the chunk with the keys of its
\* kind set; a kind without a branch is copied as it is
ProcessChunk(chunk) ==
    LET chunk_type == Get(chunk, "type", "")
    IN IF chunk_type = "function"
       THEN [processed_text |-> CleanText(Get(chunk, "docstring", <<>>)),
             function_signature |-> GetFunctionSignature(chunk),
             content_type |-> "code"] @@ chunk
       ELSE IF chunk_type = "method"
       THEN [processed_text |-> CleanText(Get(chunk, "docstring", <<>>)),
             method_signature |-> GetFunctionSignature(chunk),
             content_type |-> "code"] @@ chunk
       ELSE IF chunk_type = "class"
       THEN [processed_text |-> CleanText(Get(chunk, "docstring", <<>>)),
             content_type |-> "code"] @@ chunk
       ELSE IF chunk_type = "section"
       THEN [processed_text |->
                CleanText(RemoveCodeBlocks(Get(chunk, "content", <<>>))),
             content_type |-> "documentation",
             section_type |-> SectionType(Get(chunk, "title", <<>>))] @@ chunk
       ELSE chunk

-----------------------------------------------------------------------------
(* FileProcessor *)

\* `x in list`
InList(x, list) == \E i \in 1..Len(list) : list[i] = x

\* process_all_types of FileProcessor
ProcessAllTypes(include_types) ==
    include_types = <<>> \/ InList(<<"a", "l", "l">>, include_types)

\* FileProcessor.get_supported_extensions
GetSupportedExtensions(include_types, exclude_types, process_all_types) ==
    LET code == {ext \in CodeExtractors :
                    /\ StartsWith(ext, <<".">>)
                    /\ IF process_all_types
                       THEN ~InList(Rest(ext), exclude_types)
                       ELSE InList(Rest(ext), include_types)}
        doc == IF process_all_types
               THEN {ext \in DocSupportedExtensions :
                        ~InList(IF StartsWith(ext, <<".">>) THEN Rest(ext) ELSE ext,
                                exclude_types)}
               ELSE IF InList(<<"m", "d">>, include_types)
                        \/ InList(<<"m", "a", "r", "k", "d", "o", "w", "n">>, include_types)
               THEN { <<".", "m", "d">> }
               ELSE IF InList(<<"r", "s", "t">>, include_types) THEN { <<".", "r", "s", "t">> }
               ELSE {}
    IN code \cup doc

\* an inner loop that gives the file up at the first chunk that raises
ProcessChunksOrNone(extracted, j, raising) ==
    IF raising \cap (1..Len(extracted)) # {} THEN <<>>
    ELSE [i \in 1..Len(extracted) |-> ProcessChunk(extracted[i])]

\* the inner loop of process_files: process_chunk on each chunk, a chunk
\* on which it raises being dropped; `raising` holds their positions
RECURSIVE ProcessChunks(_, _, _)
ProcessChunks(extracted, j, raising) ==
    IF j > Len(extracted) THEN <<>>
    ELSE (IF j \in raising THEN <<>> ELSE <<ProcessChunk(extracted[j])>>)
         \o ProcessChunks(extracted, j + 1, raising)

\* one turn of the loop of process_files: what a file adds to all_chunks.
\* An unreadable file makes its extractor return [] or raise.
FileChunks(file, process_all_types, supported_extensions, unreadable, raising) ==
    LET filename == Basename(FilePath(file))
        ext == Lower(Splitext(filename))
        extracted == ExtractChunks(file, ext, filename)
    IN IF StartsWith(filename, <<".">>) THEN <<>>
       ELSE IF /\ ~process_all_types
               /\ ext \notin supported_extensions
               /\ filename \notin FilePatterns
       THEN <<>>
       ELSE IF extracted = PyNone \/ unreadable THEN <<>>
       ELSE IF extracted.v = <<>> THEN <<>>
       ELSE ProcessChunks(extracted.v, 1, raising)

\* the loop of process_files from file i on; fail.unreadable holds the
\* positions of the files that cannot be read, fail.raising the
\* (file, chunk) positions on which process_chunk raises
RECURSIVE FilesChunks(_, _, _, _, _)
FilesChunks(file_paths, i, process_all_types, supported_extensions, fail) ==
    IF i > Len(file_paths) THEN <<>>
    ELSE FileChunks(file_paths[i], process_all_types, supported_extensions,
                    i \in fail.unreadable,
                    {j \in 1..MaxFileChunks : <<i, j>> \in fail.raising})
         \o FilesChunks(file_paths, i + 1, process_all_types,
                        supported_extensions, fail)

\* FileProcessor.process_files
ProcessFiles(file_paths, include_types, exclude_types, fail) ==
    LET process_all_types == ProcessAllTypes(include_types)
        supported_extensions ==
            GetSupportedExtensions(include_types, exclude_types,
                                   process_all_types)
    IN FilesChunks(file_paths, 1, process_all_types, supported_extensions, fail)

-----------------------------------------------------------------------------
(* The build entry points up to the list they hand to the index: the walk  *)
(* of the root and the extraction; OpsBuild / CliBuild / MainBuild above   *)
(* take that list as `batch`.                                              *)

\* CodeCognitioOperations.ignore_dirs
IgnoreDirs ==
    { <<".", "g", "i", "t">>, <<"_", "_", "p", "y", "c", "a", "c", "h", "e", "_", "_">>, <<"n", "o", "d", "e", "_", "m", "o", "d", "u", "l", "e", "s">>, <<"b", "u", "i", "l", "d">>, <<"d", "i", "s", "t">>, <<"v", "e", "n", "v">>,
      <<".", "v", "e", "n", "v">>, <<".", "p", "y", "t", "e", "s", "t", "_", "c", "a", "c", "h", "e">>, <<".", "m", "y", "p", "y", "_", "c", "a", "c", "h", "e">>, <<".", "c", "o", "v", "e", "r", "a", "g", "e">>, <<"h", "t", "m", "l", "c", "o", "v">> }

\* CodeCognitioOperations.ignore_patterns
IgnorePatterns ==
    { <<".", "g", "i", "t">>, <<".", "D", "S", "_", "S", "t", "o", "r", "e">>, <<"*", ".", "p", "y", "c">>, <<"*", ".", "p", "y", "o">>, <<"*", ".", "p", "y", "d">>, <<"*", ".", "s", "o">>,
      <<"*", ".", "d", "y", "l", "i", "b">>, <<"*", ".", "d", "l", "l">>, <<"*", ".", "c", "l", "a", "s", "s">>, <<"*", ".", "l", "o", "g">> }

\* default_exclude of CodeCognitioOperations.build_index
DefaultExclude ==
    << <<"p", "y", "c">>, <<"p", "y", "o">>, <<"D", "S", "_", "S", "t", "o", "r", "e">>, <<"g", "i", "t">>, <<"s", "v", "n">>, <<"b", "z", "r">>, <<"h", "g">>, <<"i", "d", "e", "a">>,
       <<"v", "s", "c", "o", "d", "e">>, <<"c", "a", "c", "h", "e">>, <<"e", "g", "g", "-", "i", "n", "f", "o">> >>

\* types.lower().split(","): the option is given as the list of its
\* comma-separated items
LowerSplit(types) == [i \in 1..Len(types) |-> Lower(types[i])]

\* exclude_types_list of CodeCognitioOperations.build_index
ExcludeTypesList(exclude_types) ==
    LET user_exclude == LowerSplit(exclude_types)
        Added(ext) == ext # <<>> /\ ~InList(ext, DefaultExclude)
    IN DefaultExclude \o SelectSeq(user_exclude, Added)

\* the walk of CodeCognitioOperations.build_index: `files`.  The walk
\* enters no directory of ignore_dirs and none whose name begins with a
\* dot; a pattern `*.ext` skips the names that end in ext, any other
\* pattern those that contain it
OpsWalk(tree, exclude_types_list) ==
    LET Pruned(file) ==
            \E i \in 1..Len(file.dirs) :
                file.dirs[i] \in IgnoreDirs \/ StartsWith(file.dirs[i], <<".">>)
        Skip(filename) ==
            \E pattern \in IgnorePatterns :
                IF StartsWith(pattern, <<"*", ".">>)
                THEN EndsWith(filename, SubSeq(pattern, 3, Len(pattern)))
                ELSE StrIn(pattern, filename)
        Collected(file) ==
            /\ ~Pruned(file)
            /\ ~Skip(file.name)
            /\ ~\E i \in 1..Len(exclude_types_list) :
                    EndsWith(file.name, <<".">> \o exclude_types_list[i])
    IN SelectSeq(tree, Collected)

\* the file loop of main.build_index
MainProcessFiles(file_paths, file_types, include_types, exclude_types, fail) ==
    LET process_all_types == file_types = << <<"a", "l", "l">> >>
        supported_extensions ==
            GetSupportedExtensions(include_types, exclude_types,
                                   process_all_types)
    IN FilesChunks(file_paths, 1, process_all_types, supported_extensions, fail)

\* the trees of a build: at most MaxFiles distinct files in the order
\* os.walk yields them, those of the root before those of its directories
RECURSIVE TreesUpTo(_)
TreesUpTo(n) ==
    IF n = 0 THEN {<<>>}
    ELSE LET shorter == TreesUpTo(n - 1)
         IN shorter \cup
            {Append(t, file) : t \in {s \in shorter : Len(s) = n - 1},
                               file \in FilePool}

Trees ==
    LET WalkOrder(tree) ==
            /\ \A i, j \in 1..Len(tree) : i # j => tree[i] # tree[j]
            /\ \A i, j \in 1..Len(tree) :
                    (i < j /\ tree[j].dirs = <<>>) => tree[i].dirs = <<>>
    IN {tree \in TreesUpTo(MaxFiles) : WalkOrder(tree)}

\* --file-types and --exclude-types as the lists of their comma-separated
\* items, and what the environment makes fail during one build:
\* unreadable files and at most one chunk on which process_chunk raises
BuildArgs ==
    [file_types : { << <<"a", "l", "l">> >>, << <<"p", "y">> >>, << <<"m", "d">> >>,
                    << <<"m", "d">>, <<"m", "a", "r", "k", "d", "o", "w", "n">> >> },
     exclude_types : { <<>>, << <<"p", "y">> >>, << <<"M", "D">> >> },
     fail : [unreadable : SUBSET (1..MaxFiles),
             raising : { {} } \cup {{<<i, j>>} : i \in 1..MaxFiles,
                                                  j \in 1..MaxFileChunks}]]

InitIngest ==
    /\ NewEngineOn(EmptyDisk, 0)
    /\ sig_chunk = ChunkFn
    /\ sig_filter = EmptyDict
    /\ sig_ret = FALSE
    /\ fs \in Trees
    /\ args \in BuildArgs
    /\ files = <<>>
    /\ all_chunks = <<>>
    /\ TextIdle

\* FileProcessor.process_files on the files of the tree
ProcessFilesCall ==
    /\ files' = fs
    /\ all_chunks' =
            ProcessFiles(fs, args.file_types, args.exclude_types, args.fail)
    /\ call' = [op |-> "process_files"]
    /\ UNCHANGED <<engine, disk, faults, results, sigvars, fs, args, textvars>>

\* CodeCognitioOperations.build_index up to search_service.build_index
OpsIngest ==
    LET include_types ==
            IF args.file_types # << <<"a", "l", "l">> >>
            THEN LowerSplit(args.file_types) ELSE <<>>
        exclude_types_list == ExcludeTypesList(args.exclude_types)
        walked == OpsWalk(fs, exclude_types_list)
    IN /\ files' = walked
       /\ all_chunks' =
            ProcessFiles(walked, include_types, exclude_types_list, args.fail)
       /\ call' = [op |-> "ops_ingest"]
       /\ UNCHANGED <<engine, disk, faults, results, sigvars, fs, args, textvars>>

\* cli.build_index up to search_service.build_index; its walk, `for
\* root, _, filenames in os.walk(path)`, collects every file below the root
CliIngest ==
    LET walked == fs
    IN /\ files' = walked
       /\ all_chunks' =
            ProcessFiles(walked, LowerSplit(args.file_types),
                         LowerSplit(args.exclude_types), args.fail)
       /\ call' = [op |-> "cli_ingest"]
       /\ UNCHANGED <<engine, disk, faults, results, sigvars, fs, args, textvars>>

\* main.build_index up to search_engine.add_chunks, with the same walk
MainIngest ==
    LET walked == fs
    IN /\ files' = walked
       /\ all_chunks' =
            MainProcessFiles(walked, args.file_types,
                             LowerSplit(args.file_types),
                             LowerSplit(args.exclude_types), args.fail)
       /\ call' = [op |-> "main_ingest"]
       /\ UNCHANGED <<engine, disk, faults, results, sigvars, fs, args, textvars>>

NextIngest == ProcessFilesCall \/ OpsIngest \/ CliIngest \/ MainIngest

SpecIngest == InitIngest /\ [][NextIngest]_vars

-----------------------------------------------------------------------------
(* Chunker._chunk_section.  A text is a str, a sequence of characters.     *)

\* text.split("\n\n") from position i on, the piece under way starting at
\* `start`
RECURSIVE SplitParagraphs(_, _, _)
SplitParagraphs(text, i, start) ==
    IF i >= Len(text) THEN <<SubSeq(text, start, Len(text))>>
    ELSE IF text[i] = "\n" /\ text[i + 1] = "\n"
    THEN <<SubSeq(text, start, i - 1)>> \o SplitParagraphs(text, i + 2, i + 2)
    ELSE SplitParagraphs(text, i + 1, start)

\* Chunker._split_into_sentences: re.split at each run of whitespace that
\* follows one of .!? and precedes a capital
RECURSIVE SplitIntoSentences(_, _, _)
SplitIntoSentences(text, i, start) ==
    LET White(c) == c \in {" ", "\n"}
        run == {j \in i..Len(text) : \A k \in i..j : White(text[k])}
        stop == IF run = {} THEN i - 1
                ELSE CHOOSE j \in run : \A k \in run : k <= j
    IN IF i > Len(text) THEN <<SubSeq(text, start, Len(text))>>
       ELSE IF /\ i > 1 /\ text[i - 1] \in {".", "!", "?"}
               /\ stop >= i /\ stop < Len(text) /\ text[stop + 1] = "A"
       THEN <<SubSeq(text, start, i - 1)>>
                \o SplitIntoSentences(text, stop + 1, stop + 1)
       ELSE SplitIntoSentences(text, i + 1, start)

\* a packing loop that drops the unit at which it seals a chunk
RECURSIVE PackDropping(_, _, _, _)
PackDropping(units, current, joiner, size) ==
    IF units = <<>> THEN (IF current # <<>> THEN <<current>> ELSE <<>>)
    ELSE IF Len(current) + Len(Head(units)) > size /\ current # <<>>
    THEN <<current>> \o PackDropping(Tail(units), <<>>, joiner, size)
    ELSE PackDropping(Tail(units),
                      IF current # <<>> THEN current \o joiner \o Head(units)
                      ELSE Head(units),
                      joiner, size)

\* the packing loop of _chunk_section (joiner "\n\n") and of
\* _split_into_paragraphs (joiner " "): a unit is added to the chunk
\* under way unless len(current_chunk) + len(unit) exceeds the size
RECURSIVE Pack(_, _, _, _)
Pack(units, current, joiner, size) ==
    IF units = <<>> THEN (IF current # <<>> THEN <<current>> ELSE <<>>)
    ELSE IF Len(current) + Len(Head(units)) > size /\ current # <<>>
    THEN <<current>> \o Pack(Tail(units), Head(units), joiner, size)
    ELSE Pack(Tail(units),
              IF current # <<>> THEN current \o joiner \o Head(units)
              ELSE Head(units),
              joiner, size)

\* Chunker._split_into_paragraphs: the stripped, non-empty pieces between
\* blank lines, one that is too long giving way to packs of its sentences
SplitIntoParagraphs(text, size) ==
    LET White(c) == c \in {" ", "\n"}
        Strip(p) ==
            LET black == {i \in 1..Len(p) : ~White(p[i])}
            IN IF black = {} THEN <<>>
               ELSE SubSeq(p, CHOOSE i \in black : \A j \in black : i <= j,
                              CHOOSE i \in black : \A j \in black : j <= i)
        pieces == SplitParagraphs(text, 1, 1)
        stripped == [i \in 1..Len(pieces) |-> Strip(pieces[i])]
        NonEmpty(p) == p # <<>>
        paragraphs == SelectSeq(stripped, NonEmpty)
        Units(para) ==
            IF Len(para) <= size THEN <<para>>
            ELSE Pack(SplitIntoSentences(para, 1, 1), <<>>, <<" ">>, size)
        F[n \in 0..Len(paragraphs)] ==
            IF n = 0 THEN <<>> ELSE F[n - 1] \o Units(paragraphs[n])
    IN F[Len(paragraphs)]

\* a _chunk_section that numbers the chunks from 1
ChunkSectionFromOne(sec, size) ==
    LET content == Get(sec, "content", <<>>)
        packed == Pack(SplitIntoParagraphs(content, size), <<>>,
                       <<"\n", "\n">>, size)
    IN IF Len(content) <= size THEN <<sec>>
       ELSE [k \in 1..Len(packed) |->
                [content |-> packed[k], chunk_index |-> k] @@ sec]

\* Chunker._chunk_section: each chunk a copy of the section with its own
\* content and chunk_index
ChunkSection(sec, size) ==
    LET content == Get(sec, "content", <<>>)
        packed == Pack(SplitIntoParagraphs(content, size), <<>>,
                       <<"\n", "\n">>, size)
    IN IF Len(content) <= size THEN <<sec>>
       ELSE [k \in 1..Len(packed) |->
                [content |-> packed[k], chunk_index |-> k - 1] @@ sec]

\* the sections of markdown_extractor with a content of at most MaxText
\* characters, and the sizes a Chunker is built with
InitChunker ==
    /\ NewEngineOn(EmptyDisk, 0)
    /\ sig_chunk = ChunkFn /\ sig_filter = EmptyDict /\ sig_ret = FALSE
    /\ fs = <<>> /\ args = NoArgs /\ files = <<>> /\ all_chunks = <<>>
    /\ section \in {[type |-> "section", title |-> <<"Usage">>,
                     content_type |-> "documentation", content |-> text] :
                        text \in StrsOver({"a", ".", " ", "A", "\n"}, MaxText)}
    /\ max_chunk_size \in MinChunkSize..MaxChunkSize
    /\ section_chunks = <<>>
    /\ source_lines = <<>> /\ read_functions = <<>>

\* Chunker._chunk_section(section)
ChunkSectionCall ==
    /\ section_chunks' = ChunkSection(section, max_chunk_size)
    /\ call' = [op |-> "chunk_section"]
    /\ UNCHANGED <<engine, disk, faults, results, sigvars, ingestvars,
                   section, max_chunk_size, source_lines, read_functions>>

SpecChunker == InitChunker /\ [][ChunkSectionCall]_vars

-----------------------------------------------------------------------------
(* PythonExtractor._read_functions.  A line of the file is its            *)
(* indentation, len(line) - len(line.lstrip()), and what line.lstrip()    *)
(* is: a "def" or a "class" header that the patterns match, a "#"         *)
(* comment, "" for a blank line, or other "code".                         *)

\* the loop of _read_functions over the lines of the file: the blocks
\* yielded so far and buffer, buffer_start, in_definition, indent_level
ScanLines(file_lines) ==
    LET IsDefinition(line) == line.text \in {"def", "class"}
        Blank(line) == line.text = ""
        F[n \in 0..Len(file_lines)] ==
            IF n = 0
            THEN [yielded |-> <<>>, buffer |-> <<>>, buffer_start |-> 0,
                  in_definition |-> FALSE, indent_level |-> 0]
            ELSE LET s == F[n - 1]
                     line == file_lines[n]
                     current_indent == IF Blank(line) THEN 999 ELSE line.indent
                 IN IF ~s.in_definition
                    THEN IF IsDefinition(line)
                         THEN [s EXCEPT !.buffer = <<line>>,
                                        !.buffer_start = n,
                                        !.in_definition = TRUE,
                                        !.indent_level = line.indent]
                         ELSE s
                    ELSE IF /\ current_indent <= s.indent_level
                            /\ ~Blank(line)
                            /\ line.text # "#"
                    THEN LET block == [content |-> s.buffer,
                                       line_start |-> s.buffer_start]
                         IN IF IsDefinition(line)
                            THEN [s EXCEPT !.yielded = Append(@, block),
                                           !.buffer = <<line>>,
                                           !.buffer_start = n,
                                           !.indent_level = line.indent]
                            ELSE [s EXCEPT !.yielded = Append(@, block),
                                           !.buffer = <<>>,
                                           !.in_definition = FALSE]
                    ELSE [s EXCEPT !.buffer = Append(@, line)]
    IN F[Len(file_lines)]

\* a _read_functions that forgets the definition open at the end of file
ReadFunctionsLosingLast(file_lines) ==
    ScanLines(file_lines).yielded

\* PythonExtractor._read_functions: the (content, line number) pairs
\* yielded, the buffer left at the end of the file last
ReadFunctions(file_lines) ==
    LET s == ScanLines(file_lines)
    IN IF s.buffer # <<>>
       THEN Append(s.yielded, [content |-> s.buffer,
                               line_start |-> s.buffer_start])
       ELSE s.yielded

\* every file of at most MaxLines lines
InitScanner ==
    /\ NewEngineOn(EmptyDisk, 0)
    /\ sig_chunk = ChunkFn /\ sig_filter = EmptyDict /\ sig_ret = FALSE
    /\ fs = <<>> /\ args = NoArgs /\ files = <<>> /\ all_chunks = <<>>
    /\ section = EmptyDict /\ max_chunk_size = 500 /\ section_chunks = <<>>
    /\ source_lines \in StrsOver(
           [indent : 0..2, text : {"def", "class", "code", "#"}]
               \cup {[indent |-> 0, text |-> ""]}, MaxLines)
    /\ read_functions = <<>>

\* list(self._read_functions(file_path))
ReadFunctionsCall ==
    /\ read_functions' = ReadFunctions(source_lines)
    /\ call' = [op |-> "read_functions"]
    /\ UNCHANGED <<engine, disk, faults, results, sigvars, ingestvars,
                   section, max_chunk_size, section_chunks, source_lines>>

SpecScanner == InitScanner /\ [][ReadFunctionsCall]_vars

----
\* Properties

\* the three search entry points
SearchOps == {"faiss_search", "engine_search", "service_search"}

\* C1: whatever entry point a search goes through, the list it returns has
\* at most top_k entries, every entry scores at least min_score, and the
\* scores never increase along the list
C1_SearchBounded ==
    call.op \in SearchOps =>
        /\ Len(results) <= call.top_k
        /\ \A i \in 1..Len(results) : results[i].score >= call.min_score
        /\ \A i \in 1..(Len(results) - 1) :
                results[i].score >= results[i + 1].score

\* a search that cut two candidates down to the single best one, which is
\* not the first chunk added and which alone reaches the floor
C1_Witness ==
    /\ call.op \in SearchOps
    /\ call.top_k = 1 /\ call.min_score = 1
    /\ Len(chunks) = 2
    /\ Len(results) = 1 /\ results[1].chunk = chunks[2]
    /\ results[1].score = 1

\* C2: a search with content_filter 'code' or 'documentation' returns only
\* chunks whose content_type is the requested one
C2_OnlyRequestedType ==
    (call.op \in SearchOps /\ call.content_filter \in {"code", "documentation"})
        => \A i \in 1..Len(results) :
               Get(results[i].chunk, "content_type", "") = call.content_filter

\* C3: after add_chunks calls and build_index, each collection has as many
\* index rows as entries in its chunk list
C3_RowsMatchChunks ==
    /\ Len(index) = Len(chunks)
    /\ Len(code_index) = Len(code_chunks)
    /\ Len(doc_index) = Len(doc_chunks)

\* a build_index that saved an engine holding code and documentation chunks
C3_Witness ==
    /\ call.op = "build_index" /\ call.saved
    /\ ~loaded
    /\ Len(index) = 2 /\ Len(code_index) = 1 /\ Len(doc_index) = 1

\* list a is an initial part of list b
IsPrefix(a, b) == Len(a) <= Len(b) /\ SubSeq(b, 1, Len(a)) = a

\* row i of each index embeds entry i of its list, and the code and
\* documentation lists are the subsequences of the full list
RoutedInOrder ==
    /\ index = Embeddings(chunks)
    /\ code_chunks = OfContentType(chunks, "code")
    /\ code_index = Embeddings(code_chunks)
    /\ doc_chunks = OfContentType(chunks, "documentation")
    /\ doc_index = Embeddings(doc_chunks)

\* an engine filled by add_chunks calls that all returned
OnlyAdded == ~loaded /\ ~torn

\* the step is a call of one of `ops` on the engine
KeepsEntries(ops) ==
    call'.op \in ops =>
        /\ IsPrefix(chunks, chunks')
        /\ IsPrefix(code_chunks, code_chunks')
        /\ IsPrefix(doc_chunks, doc_chunks')

\* an add_chunks call that returns appends its batch
AppendsBatch ==
    (call'.op = "add_chunks" /\ ~call'.raised) => chunks' = chunks \o call'.batch

EngineOps == {"add_chunks", "build_index", "load_index", "ops_build"}

C5_BuildPersists ==
    (call.op \in {"cli_build", "ops_build"} /\ call.success
     /\ call.batch # <<>>)
        => \A r \in {LoadIndexEffect(FreshState, disk, 0)} :
               r.ok /\ r.st.chunks = chunks

\* C6: a new engine that loads what build_index saved holds the same three
\* lists, the same three row counts, and metadata counts equal to the
\* lengths of the lists
C6_SaveLoadRoundTrip ==
    (call.op \in {"build_index", "main_build"} /\ call.saved)
        => \A r \in {LoadIndexEffect(FreshState, disk, 0)} :
               /\ r.ok
               /\ r.st.chunks = chunks
               /\ r.st.code_chunks = code_chunks
               /\ r.st.doc_chunks = doc_chunks
               /\ Len(r.st.index) = Len(index)
               /\ Len(r.st.code_index) = Len(code_index)
               /\ Len(r.st.doc_index) = Len(doc_index)
               /\ r.st.index_metadata.total_chunks = Len(chunks)
               /\ r.st.index_metadata.code_chunks = Len(code_chunks)
               /\ r.st.index_metadata.doc_chunks = Len(doc_chunks)

\* a save of two chunks of different kinds, one of them with a null field
C6_Witness ==
    /\ call.op = "build_index" /\ call.saved
    /\ OnlyAdded
    /\ chunks = <<ChunkRaw, ChunkFn>>
    /\ disk.chunks.exists /\ Len(disk.chunks.data) = 2

\* C7: a build_index that changes the data directory leaves exactly the
\* files of the new index, however the save ends
C7_SaveAtomic ==
    [][(call'.op = "build_index" /\ disk' # disk)
          => disk' = SaveIndexEffect(disk, State, 7)]_vars

BuildOps == {"cli_build", "ops_build", "main_build"}

\* C8: the second of two consecutive successful builds over the same
\* inputs leaves the lists, the indices and the files as the first did
C8_BuildIdempotent ==
    [][(/\ call.op \in BuildOps /\ call.success
        /\ call'.op \in BuildOps /\ call'.success
        /\ call'.batch = call.batch)
          => /\ chunks' = chunks
             /\ code_chunks' = code_chunks
             /\ doc_chunks' = doc_chunks
             /\ index' = index
             /\ code_index' = code_index
             /\ doc_index' = doc_index
             /\ disk' = disk]_vars

\* the chunk passes the post-filters of the last SearchService.search
PassesPostFilters(chunk) ==
    /\ call.type_filter # NoType => Get(chunk, "type", "") = call.type_filter
    /\ call.signature_filter # NoFilter
          => ServiceSignatureMatch(chunk, call.signature_filter)

\* C9: when at least top_k of the 2 * top_k nearest neighbours reach
\* min_score and pass the post-filters, SearchService.search returns
\* exactly top_k results
C9_FullTopK ==
    call.op = "service_search" =>
        \A c \in {Collection(State, call.content_filter)} :
        \A nn \in {IndexSearch(c.index, Encode(call.query), 2 * call.top_k)} :
            Cardinality({p \in 1..Len(nn) :
                            /\ nn[p].idx >= 0
                            /\ nn[p].score >= call.min_score
                            /\ PassesPostFilters(c.chunks[nn[p].idx + 1])})
                >= call.top_k
              => Len(results) = call.top_k

\* the same letter, whatever the case
Fold(c) == IF c \in {"L", "l"} THEN "l" ELSE IF c \in {"S", "s"} THEN "s" ELSE c

\* hay contains needle, case ignored
ContainsCI(hay, needle) ==
    \E off \in 0..(Len(hay) - Len(needle)) :
        \A i \in 1..Len(needle) : Fold(hay[off + i]) = Fold(needle[i])

\* the parameters and the return type of a chunk, under whichever key
SigParamsOf(chunk) ==
    IF "params" \in DOMAIN chunk THEN chunk.params
    ELSE IF "parameters" \in DOMAIN chunk THEN chunk.parameters
    ELSE <<>>

SigReturnOf(chunk) ==
    IF "return_type" \in DOMAIN chunk THEN chunk.return_type
    ELSE IF "returns" \in DOMAIN chunk THEN chunk.returns
    ELSE PyNone

\* some parameter of the chunk has `field` containing the needle
SomeParam(chunk, field, needle) ==
    \E i \in 1..Len(SigParamsOf(chunk)) :
        /\ field \in DOMAIN SigParamsOf(chunk)[i]
        /\ ContainsCI(SigParamsOf(chunk)[i][field], needle)

\* C10: _matches_signature_filter accepts a chunk exactly when it is a
\* function or method and every supplied filter matches, case ignored:
\* param_name some parameter's name, param_type some parameter's type,
\* return_type the return type; under either key convention
C10_SignatureFilter ==
    call.op = "matches_signature_filter" =>
        sig_ret =
            (/\ sig_chunk.type \in {"function", "method"}
             /\ "param_name" \in DOMAIN sig_filter
                   => SomeParam(sig_chunk, "name", sig_filter.param_name.v)
             /\ "param_type" \in DOMAIN sig_filter
                   => SomeParam(sig_chunk, "type", sig_filter.param_type.v)
             /\ "return_type" \in DOMAIN sig_filter
                   => /\ SigReturnOf(sig_chunk).t = "str"
                      /\ ContainsCI(SigReturnOf(sig_chunk).v,
                                    sig_filter.return_type.v))

\* a chunk with the keys parameters / returns accepted under all three
\* filters, each matching only when case is ignored
C10_Witness ==
    /\ call.op = "matches_signature_filter"
    /\ sig_ret
    /\ DOMAIN sig_filter = SigKeys
    /\ "parameters" \in DOMAIN sig_chunk
    /\ sig_filter.param_type.v = <<"L", "s">>
    /\ sig_chunk.parameters = <<[name |-> <<"S">>, type |-> <<"l", "S">>]>>
    /\ sig_filter.param_name.v = <<"s">>
    /\ sig_filter.return_type.v = <<"L">>
    /\ sig_chunk.returns = PyStr(<<"S", "l">>)

\* a function or method chunk matching every supplied filter, case ignored
SignatureAccepts(chunk, filter) ==
    /\ Get(chunk, "type", "") \in {"function", "method"}
    /\ "param_name" \in DOMAIN filter
          => SomeParam(chunk, "name", filter.param_name.v)
    /\ "param_type" \in DOMAIN filter
          => SomeParam(chunk, "type", filter.param_type.v)
    /\ "return_type" \in DOMAIN filter
          => /\ SigReturnOf(chunk).t = "str"
             /\ ContainsCI(SigReturnOf(chunk).v, filter.return_type.v)

\* C11: under a signature filter, SearchService.search keeps exactly the
\* retrieved candidates that are function or method chunks with some
\* parameter type / parameter name / return type containing the filter,
\* case ignored
C11_ServiceKeepsMatching ==
    (call.op = "service_search" /\ call.signature_filter # NoFilter) =>
        LET Keep(r) ==
                /\ call.type_filter # NoType
                      => Get(r.chunk, "type", "") = call.type_filter
                /\ SignatureAccepts(r.chunk, call.signature_filter)
        IN results =
             SelectSeq(SearchLoaded(State, call.query, call.top_k,
                                    call.content_filter, call.min_score),
                       Keep)

\* what the last search returns on the state it left, with min_score m
ResultsWith(m) ==
    CASE call.op = "faiss_search" ->
            FaissSearch(State, disk, call.query, call.top_k,
                        call.content_filter, m, 0).results
      [] call.op = "engine_search" ->
            EngineSearch(State, disk, call.query, call.top_k,
                         call.content_filter, m, call.type_filter,
                         call.signature_filter, 0).results
      [] call.op = "service_search" ->
            ServiceSearch(State, disk, call.query, call.top_k,
                          call.content_filter, m, call.type_filter,
                          call.signature_filter, 0).results

\* the scores lower than any a chunk can get, up to the highest
LowerScores(m) == -2..m

\* C12: with index, query, top_k and filters fixed, the list a search
\* returns under min_score m2 is an initial part of the list it returns
\* under any m1 <= m2
C12_MinScoreMonotone ==
    call.op \in SearchOps =>
        /\ results = ResultsWith(call.min_score)
        /\ \A m1 \in LowerScores(call.min_score) :
               IsPrefix(results, ResultsWith(m1))

\* a search whose floor cut off a result that a lower floor returns
C12_Witness ==
    /\ call.op = "engine_search"
    /\ call.min_score = 1
    /\ Len(results) = 1
    /\ Len(ResultsWith(0)) = 2

\* C13: a search on an engine whose index is empty, over a data directory
\* without metadata file, returns the empty list and leaves the three
\* lists and the three indices empty
C13_IndexMissing ==
    [][(call'.op \in SearchOps /\ Len(index) = 0 /\ ~disk.meta.exists)
          => /\ results' = <<>>
             /\ chunks' = <<>> /\ code_chunks' = <<>> /\ doc_chunks' = <<>>
             /\ index' = <<>> /\ code_index' = <<>> /\ doc_index' = <<>>
             /\ disk' = disk]_vars

\* a SearchService.search that tried to load from an empty data directory
C13_Witness ==
    /\ call.op = "service_search" /\ call.autoload
    /\ ~disk.meta.exists
    /\ ~loaded
    /\ results = <<>> /\ chunks = <<>> /\ index = <<>>

\* C14: a build during which the embedder fails reports the failure to
\* its caller and writes nothing to the data directory
C14_EmbedderFailure ==
    [][(call'.op \in BuildOps /\ call'.fail = "embed")
          => ~call'.reported /\ disk' = disk]_vars

\* what file i of the list handed to process_files yields when nothing
\* fails
OwnChunks(i) ==
    FileChunks(files[i], ProcessAllTypes(args.file_types),
               GetSupportedExtensions(args.file_types, args.exclude_types,
                                      ProcessAllTypes(args.file_types)),
               FALSE, {})

\* the positions of the chunks of file i on which normalization failed
RaisingIn(i) ==
    {j \in 1..Len(OwnChunks(i)) : <<i, j>> \in args.fail.raising}

\* the lists of the files from i on, one after the other
RECURSIVE Concat(_, _, _)
Concat(Part(_), i, n) ==
    IF i > n THEN <<>> ELSE Part(i) \o Concat(Part, i + 1, n)

\* C15 as stated: process_files returns, in input order, exactly the
\* chunks of the files on which neither extraction nor normalization
\* failed
C15_PerFileIsolation ==
    call.op = "process_files" =>
        LET Part(i) ==
                IF i \in args.fail.unreadable \/ RaisingIn(i) # {}
                THEN <<>> ELSE OwnChunks(i)
        IN all_chunks = Concat(Part, 1, Len(files))

\* C15: process_files isolates extraction failures per file and
\* normalization failures per chunk: it returns, in input order, the
\* chunks of every file whose extraction did not fail, less the chunks
\* on which normalization failed
C15_PerChunkIsolation ==
    call.op = "process_files" =>
        LET Part(i) ==
                IF i \in args.fail.unreadable THEN <<>>
                ELSE LET Kept(chunk) ==
                            \E j \in 1..Len(OwnChunks(i)) \ RaisingIn(i) :
                                OwnChunks(i)[j] = chunk
                     IN SelectSeq(OwnChunks(i), Kept)
        IN all_chunks = Concat(Part, 1, Len(files))

\* the second of two files could not be read and normalization failed
\* on the second chunk of the first, whose other four chunks are returned
C15_Witness ==
    /\ call.op = "process_files"
    /\ Len(files) = 2
    /\ args.fail = [unreadable |-> {2}, raising |-> {<<1, 2>>}]
    /\ Len(OwnChunks(1)) = 5 /\ OwnChunks(2) # <<>>
    /\ Len(all_chunks) = 4

\* the operations that run the ingestion pipeline
IngestOps == {"process_files", "ops_ingest", "cli_ingest", "main_ingest"}

\* C16: every chunk that leaves the ingestion pipeline carries the
\* content_type of its kind, 'documentation' for section and code_block
\* and 'code' for every other kind, so that add_chunks routes it to
\* exactly one of the code and documentation lists
C16_ContentTypeOfKind ==
    call.op \in IngestOps =>
        \A i \in 1..Len(all_chunks) :
            /\ "content_type" \in DOMAIN all_chunks[i]
            /\ all_chunks[i].content_type =
                    IF all_chunks[i].type \in {"section", "code_block"}
                    THEN "documentation" ELSE "code"
            /\ Len(OfContentType(<<all_chunks[i]>>, "code"))
                    + Len(OfContentType(<<all_chunks[i]>>, "documentation")) = 1

\* the signature of a chunk rendered from its name, params and
\* return_type: name(p: t, q) -> r
RenderedSignature(func_data) ==
    LET name == Get(func_data, "full_name", Get(func_data, "name", <<>>))
        parameters == Get(func_data, "params", <<>>)
        Param(param) ==
            IF Get(param, "type", <<>>) # <<>>
            THEN Get(param, "name", <<>>) \o <<":", " ">> \o Get(param, "type", <<>>)
            ELSE Get(param, "name", <<>>)
        returns == Get(func_data, "return_type", PyStr(<<>>))
    IN name \o <<"(">>
            \o Join(<<",", " ">>, [i \in 1..Len(parameters) |-> Param(parameters[i])])
            \o <<")">>
            \o (IF Truthy(returns) THEN <<" ", "-", ">", " ">> \o returns.v ELSE <<>>)

\* C17: the signature of every function or method chunk of the Python
\* extractor lists its parameters in source order, each with its type
\* where annotated, and its return type where annotated
C17_SignatureRendersParams ==
    call.op \in IngestOps =>
        \A i \in 1..Len(all_chunks) :
            /\ all_chunks[i].type = "function" =>
                    all_chunks[i].function_signature
                        = RenderedSignature(all_chunks[i])
            /\ all_chunks[i].type = "method" =>
                    all_chunks[i].method_signature
                        = RenderedSignature(all_chunks[i])

\* a readable, non-hidden file that no filename pattern, code extension,
\* alias or documentation extension claims
Unclaimed(i) ==
    LET filename == Basename(FilePath(files[i]))
        ext == Lower(Splitext(filename))
    IN /\ i \notin args.fail.unreadable
       /\ ~StartsWith(filename, <<".">>)
       /\ filename \notin FilePatterns
       /\ ext \notin CodeSupportedExtensions \cup DocSupportedExtensions

\* C18: with all file types enabled, process_files emits for such a file
\* exactly one chunk, a generic-file chunk holding the text of the file
C18_GenericFallback ==
    (call.op = "process_files" /\ ProcessAllTypes(args.file_types)
        /\ args.fail.raising = {}) =>
        \A i \in 1..Len(files) :
            Unclaimed(i) =>
                \E j \in 1..Len(all_chunks) :
                    /\ all_chunks[j].file_path = FilePath(files[i])
                    /\ all_chunks[j].type = "file"
                    /\ all_chunks[j].content = files[i].content
                    /\ \A k \in 1..Len(all_chunks) :
                            all_chunks[k].file_path = FilePath(files[i])
                                => k = j

\* the build entry points
BuildWalks == {"ops_ingest", "cli_ingest", "main_ingest"}

\* a path that lies under a directory of the ignore-dir set or under a
\* directory whose name begins with a dot
UnderIgnoredDir(file_path) ==
    \E d \in 1..Len(file_path.dirs) :
        file_path.dirs[d] \in IgnoreDirs \/ file_path.dirs[d][1] = "."

\* C19: in every build entry point the walk enters no such directory, so
\* no file under one is collected and none contributes a chunk
C19_IgnoredDirsPruned ==
    call.op \in BuildWalks =>
        /\ \A i \in 1..Len(files) : ~UnderIgnoredDir(FilePath(files[i]))
        /\ \A j \in 1..Len(all_chunks) :
                ~UnderIgnoredDir(all_chunks[j].file_path)

\* the extension of a basename without its dot, in lower case
ExtensionOf(name) == Rest(Lower(Splitext(name)))

\* the extensions --exclude-types names, with the defaults of the
\* operations layer
ExcludedExtensions ==
    {Lower(args.exclude_types[i]) : i \in 1..Len(args.exclude_types)}
        \cup {DefaultExclude[i] : i \in 1..Len(DefaultExclude)}

\* fnmatch of a basename against an ignore glob: `*.ext` matches the
\* names that end in .ext, a pattern without wildcard matches itself
MatchesIgnoreGlob(name) ==
    \E pattern \in IgnorePatterns :
        IF pattern[1] = "*" THEN EndsWith(name, Rest(pattern))
        ELSE name = pattern

\* the file is discovered: the walk reaches its directory
Discovered(file) == ~UnderIgnoredDir(FilePath(file))

\* C20: in any build no chunk comes from a file whose extension
\* --exclude-types names, and a discovered file is left out of `files`
\* only if its basename begins with a dot, its extension is excluded or
\* its basename matches an ignore glob
C20_ExcludedAndIgnored ==
    call.op \in BuildWalks =>
        /\ \A j \in 1..Len(all_chunks) :
                ~InList(ExtensionOf(all_chunks[j].file_path.name),
                        LowerSplit(args.exclude_types))
        /\ \A i \in 1..Len(fs) :
                (Discovered(fs[i]) /\ ~InList(fs[i], files)) =>
                    \/ fs[i].name[1] = "."
                    \/ ExtensionOf(fs[i].name) \in ExcludedExtensions
                    \/ MatchesIgnoreGlob(fs[i].name)

\* the three lists and the three indices are as they were
ListsAndIndicesKept ==
    /\ chunks' = chunks /\ code_chunks' = code_chunks
    /\ doc_chunks' = doc_chunks
    /\ index' = index /\ code_index' = code_index /\ doc_index' = doc_index

\* C23: when _load_index returns True each of the three lists has as many
\* entries as its index has rows, and these counts are total_chunks,
\* code_chunks and doc_chunks of the metadata just read
C23_LoadedConsistent ==
    [][(call'.op = "load_index" /\ call'.ret) =>
          /\ Len(chunks') = Len(index')
          /\ Len(code_chunks') = Len(code_index')
          /\ Len(doc_chunks') = Len(doc_index')
          /\ Len(chunks') = index_metadata'.total_chunks
          /\ Len(code_chunks') = index_metadata'.code_chunks
          /\ Len(doc_chunks') = index_metadata'.doc_chunks]_vars

\* C24: when _load_index returns False the three lists and the three
\* indices are what they were before the call
C24_LoadAllOrNothing ==
    [][(call'.op = "load_index" /\ ~call'.ret) => ListsAndIndicesKept]_vars

\* C25: get_index_status changes none of the three lists and none of the
\* three indices
C25_StatusReadOnly ==
    [][call'.op = "get_index_status" => ListsAndIndicesKept]_vars

\* C26: an add_chunks that raises leaves the three lists and the three
\* indices unchanged, each list as long as its index has rows
C26_AddAllOrNothing ==
    [][(call'.op = "add_chunks" /\ call'.raised) =>
          /\ ListsAndIndicesKept
          /\ Len(chunks') = Len(index')
          /\ Len(code_chunks') = Len(code_index')
          /\ Len(doc_chunks') = Len(doc_index')]_vars

\* the packing units of a text: its paragraphs, an over-long paragraph
\* giving way to its sentences
PackingUnits(text, size) ==
    LET paragraphs == SplitIntoParagraphs(text, Len(text))
        Units(para) == IF Len(para) <= size THEN <<para>>
                       ELSE SplitIntoSentences(para, 1, 1)
        F[n \in 0..Len(paragraphs)] ==
            IF n = 0 THEN <<>> ELSE F[n - 1] \o Units(paragraphs[n])
    IN F[Len(paragraphs)]

\* the section under hand was split by _chunk_section
SectionSplit ==
    /\ call.op = "chunk_section"
    /\ Len(section.content) > max_chunk_size

\* C21: when the content of a section exceeds max_chunk_size and each of
\* its packing units fits within max_chunk_size, every sub-chunk that
\* _chunk_section emits has a content of at most max_chunk_size
\* characters, joiners included.
C21_SubChunksFit ==
    (/\ SectionSplit
     /\ LET units == PackingUnits(section.content, max_chunk_size)
        IN \A u \in 1..Len(units) : Len(units[u]) <= max_chunk_size)
        => \A k \in 1..Len(section_chunks) :
               Len(section_chunks[k].content) <= max_chunk_size

\* C22: the n sub-chunks of a split section carry the chunk_index values
\* 0, 1, ..., n-1 in emission order and equal the parent section in every
\* field other than content and chunk_index, and the call leaves the
\* parent section as it was.
C22_IndexedCopies ==
    [][call'.op = "chunk_section" /\ Len(section.content) > max_chunk_size
        => /\ section' = section
           /\ \A k \in 1..Len(section_chunks') :
                  LET sub == section_chunks'[k]
                  IN /\ sub.chunk_index = k - 1
                     /\ DOMAIN sub = DOMAIN section \cup {"chunk_index"}
                     /\ \A f \in DOMAIN section \ {"content"} :
                            sub[f] = section[f]]_vars

\* a section was split into two sub-chunks or more
C22_Witness ==
    /\ SectionSplit
    /\ Len(section_chunks) >= 2
    /\ section_chunks[2].chunk_index = 1
    /\ section_chunks[2].title = section.title

\* the sentences of the paragraphs of a text, in reading order
SentencesOf(text) == PackingUnits(text, 0)

\* C30: _chunk_section conserves content: reading the sub-chunks of a
\* split section in chunk_index order yields the packing units of the
\* parent's content, each once and in their original order, and no
\* sub-chunk is empty.
C30_ContentConserved ==
    SectionSplit
        => /\ \A k \in 1..Len(section_chunks) :
                  section_chunks[k].content # <<>>
           /\ LET Part(k) == SentencesOf(section_chunks[k].content)
              IN Concat(Part, 1, Len(section_chunks))
                     = SentencesOf(section.content)

\* a section of three units was split into two sub-chunks, the first
\* holding two of the units
C30_Witness ==
    /\ SectionSplit
    /\ Len(section_chunks) = 2
    /\ Len(SentencesOf(section.content)) = 3
    /\ Len(SentencesOf(section_chunks[1].content)) = 2

\* line i of the file is a def or class header
IsDefinitionLine(i) == source_lines[i].text \in {"def", "class"}

\* line i is neither blank nor a comment
IsCodeLine(i) == source_lines[i].text \notin {"", "#"}

\* the last line of the block that line s begins: the line before the
\* first later code line indented no deeper than line s, or the last line
\* of the file
BlockEnd(s) ==
    LET enders == {j \in s + 1..Len(source_lines) :
                       /\ IsCodeLine(j)
                       /\ source_lines[j].indent <= source_lines[s].indent}
    IN IF enders = {} THEN Len(source_lines)
       ELSE (CHOOSE j \in enders : \A e \in enders : j <= e) - 1

\* the first def or class line at or after line i, 0 when there is none
NextDefinition(i) ==
    LET later == {j \in i..Len(source_lines) : IsDefinitionLine(j)}
    IN IF later = {} THEN 0 ELSE CHOOSE j \in later : \A e \in later : j <= e

\* a file of top-level definitions with deeper bodies: its first code
\* line is not indented and each code line that is not indented is a def
\* or class header
TopLevelDefinitions ==
    LET code == {i \in 1..Len(source_lines) : IsCodeLine(i)}
    IN /\ \A i \in code : source_lines[i].indent = 0 => IsDefinitionLine(i)
       /\ \A i \in code : (\A j \in code : i <= j) => source_lines[i].indent = 0

\* C27: _read_functions begins a block at each def or class line met
\* while no block is open, ends it before the first later code line
\* indented no deeper than its first line (a def or class line there
\* beginning the next block), and yields the block open at the end of the
\* file; so for a file of top-level definitions with deeper bodies it
\* yields one block per top-level definition, in source order, without
\* overlap, each with the 1-based number of its first line.
C27_BlocksOfDefinitions ==
    call.op = "read_functions"
        => LET n == Len(read_functions)
               After(k) == IF k = 0 THEN 1
                           ELSE BlockEnd(read_functions[k].line_start) + 1
               TopLevel(i) == IsDefinitionLine(i) /\ source_lines[i].indent = 0
               numbers == [i \in 1..Len(source_lines) |-> i]
           IN /\ \A k \in 1..n :
                     LET s == read_functions[k].line_start
                     IN /\ s # 0
                        /\ s = NextDefinition(After(k - 1))
                        /\ read_functions[k].content
                               = SubSeq(source_lines, s, BlockEnd(s))
              /\ NextDefinition(After(n)) = 0
              /\ TopLevelDefinitions
                     => [k \in 1..n |-> read_functions[k].line_start]
                            = SelectSeq(numbers, TopLevel)

\* a file of two top-level definitions with bodies was read: two blocks,
\* the second beginning at line 3 and open at the end of the file
C27_Witness ==
    /\ call.op = "read_functions"
    /\ TopLevelDefinitions
    /\ Len(source_lines) = 4
    /\ Len(read_functions) = 2
    /\ read_functions[2].line_start = 3
    /\ Len(read_functions[2].content) = 2

\* C28: of a Python file parsed in full, a function chunk stands for a
\* top-level function only and a function defined in a class body gives
\* one method chunk: no definition gives both a function chunk and a
\* method chunk.
C28_OneChunkPerDefinition ==
    call.op \in IngestOps =>
        \A i \in 1..Len(all_chunks) :
            all_chunks[i].type = "function" =>
                /\ \E file \in FilePool :
                       /\ file.lang = "python"
                       /\ FilePath(file) = all_chunks[i].file_path
                       /\ \E k \in 1..Len(file.body) :
                              /\ file.body[k].node = "FunctionDef"
                              /\ file.body[k].name = all_chunks[i].name
                /\ ~\E j \in 1..Len(all_chunks) :
                       /\ all_chunks[j].type = "method"
                       /\ all_chunks[j].file_path = all_chunks[i].file_path
                       /\ all_chunks[j].name = all_chunks[i].name

\* file i of the list is one that an explicit include list selects: its
\* extension, lower-cased and without the dot, is listed and an extractor
\* supports it, or its name is a special filename
Selected(i) ==
    LET filename == Basename(FilePath(files[i]))
        ext == Lower(Splitext(filename))
    IN \/ /\ ext # <<>>
          /\ InList(Rest(ext), args.file_types)
          /\ ext \in CodeSupportedExtensions \cup DocSupportedExtensions
       \/ filename \in FilePatterns

\* C29: given an explicit include_types list, process_files processes a
\* file that is not hidden if and only if its extension is listed and
\* supported or its name is a special filename, every listed type being
\* honoured when several are given together.
C29_ListedTypesProcessed ==
    (/\ call.op = "process_files"
     /\ ~ProcessAllTypes(args.file_types)
     /\ args.fail.unreadable = {} /\ args.fail.raising = {})
        => \A i \in 1..Len(files) :
               ~StartsWith(Basename(FilePath(files[i])), <<".">>)
                   => (Selected(i)
                         <=> \E j \in 1..Len(all_chunks) :
                                 all_chunks[j].file_path = FilePath(files[i]))

====
